---- MODULE Spec2Model ----
(***************************************************************************)
(* Natural-language location / route extraction pipeline of the map UI:    *)
(* processNaturalLanguageInput (enhanced-nlp.js), the regex extractors of  *)
(* nlp.js and the search-button click handler of script.js.                *)
(*                                                                         *)
(* Text representation.  A string is a sequence of atoms.  An atom is a    *)
(* word (a maximal run of \w characters), one blank (SP) or one            *)
(* punctuation character.  Two word atoms are never adjacent, so a regex   *)
(* word boundary \b lies exactly at the two ends of every word atom, and   *)
(* \s+ matches exactly one SP atom (input texts carry single blanks).      *)
(* Regular expressions of the source are translated to scans over atoms;   *)
(* tests that look inside a word (substring tests, character classes) are  *)
(* tables over the vocabulary.                                             *)
(***************************************************************************)
EXTENDS Integers, Sequences, FiniteSets, TLC

SP == " "
DOT == "."

\* ------------------------------------------------------------------------
\* Bounds and input sets
\* ------------------------------------------------------------------------
MaxWords == 4
MaxQueries == 2
MaxCalls == 2
MaxWaypoints == 3

\* Items a typed query is built from: words, and the full stop.
Items == {"from", "to", "Paris", "Rome", DOT}

\* ------------------------------------------------------------------------
\* Character-level tables over the vocabulary
\* ------------------------------------------------------------------------
\* String.prototype.toLowerCase on one atom.
Lower(a) ==
  CASE a = "Paris" -> "paris"
    [] a = "Rome" -> "rome"
    [] a = "ROME" -> "rome"
    [] a = "New" -> "new"
    [] a = "York" -> "york"
    [] a = "Walking" -> "walking"
    [] OTHER -> a

\* c.toUpperCase() applied to the first character of a word (/\b\w/g).
TitleWord(a) ==
  CASE a = "paris" -> "Paris"
    [] a = "rome" -> "Rome"
    [] a = "new" -> "New"
    [] a = "york" -> "York"
    [] a = "from" -> "From"
    [] a = "to" -> "To"
    [] a = "and" -> "And"
    [] a = "in" -> "In"
    [] a = "walking" -> "Walking"
    [] a = "route" -> "Route"
    [] a = "transit" -> "Transit"
    [] a = "avoid" -> "Avoid"
    [] a = "toll" -> "Toll"
    [] a = "tolls" -> "Tolls"
    [] a = "by" -> "By"
    [] a = "bus" -> "Bus"
    [] OTHER -> a

\* Atoms that match [,.!?;] , [,.:;] and [,.?!:;] (one punctuation character).
PunctA == {",", ".", "!", "?", ";"}
PunctB == {",", ".", ":", ";"}
PunctC == {",", ".", "?", "!", ":", ";"}

\* Words of the vocabulary that match /^[A-Z][a-zA-Z]+$/.
CapWords == {"Paris", "Rome", "ROME", "New", "York", "Walking"}

\* Words of the vocabulary containing one of route|path|way|directions|from|
\* to|travel|trip|journey|drive|walk|map|between as a substring, any case.
RoutingKeywordWords ==
  {"from", "to", "route", "walking", "Walking", "toward", "towards", "toll", "tolls"}

IsSp(a) == a = SP
IsWord(a) == a # SP /\ a \notin PunctC

\* ------------------------------------------------------------------------
\* String helpers
\* ------------------------------------------------------------------------
Min(S) == CHOOSE x \in S : \A y \in S : x <= y
Max(S) == CHOOSE x \in S : \A y \in S : x >= y

\* String.prototype.trim
Trim(s) ==
  LET keep == {i \in 1..Len(s) : ~IsSp(s[i])}
  IN IF keep = {} THEN <<>> ELSE SubSeq(s, Min(keep), Max(keep))

LowerStr(s) == [i \in 1..Len(s) |-> Lower(s[i])]

\* s.includes(w) / regex test for a pattern that lies inside one word.
HasWord(s, w) == \E i \in 1..Len(s) : Lower(s[i]) = w

\* s.split(/\bw\b/i)
RECURSIVE SplitWord(_, _)
SplitWord(s, w) ==
  LET hits == {i \in 1..Len(s) : Lower(s[i]) = w}
  IN IF hits = {} THEN <<s>>
     ELSE LET i == Min(hits)
          IN <<SubSeq(s, 1, i - 1)>> \o SplitWord(SubSeq(s, i + 1, Len(s)), w)

\* The separator /\s+to\s+/i begins at atom i.
ToSepAt(s, i) ==
  /\ i + 2 <= Len(s)
  /\ IsSp(s[i])
  /\ Lower(s[i + 1]) = "to"
  /\ IsSp(s[i + 2])

\* s.split(/\s+to\s+/i): separators are taken left to right, not overlapping.
RECURSIVE SplitTo(_)
SplitTo(s) ==
  LET hits == {i \in 1..Len(s) : ToSepAt(s, i)}
  IN IF hits = {} THEN <<s>>
     ELSE LET i == Min(hits)
          IN <<SubSeq(s, 1, i - 1)>> \o SplitTo(SubSeq(s, i + 3, Len(s)))

\* s.replace(/[...]$/, ''): drops one trailing punctuation character of P.
StripOne(s, P) ==
  IF Len(s) > 0 /\ s[Len(s)] \in P THEN SubSeq(s, 1, Len(s) - 1) ELSE s

\* s.replace(/[...]+$/, ''): drops the whole trailing run of characters of P.
RECURSIVE StripRun(_, _)
StripRun(s, P) ==
  IF Len(s) > 0 /\ s[Len(s)] \in P THEN StripRun(SubSeq(s, 1, Len(s) - 1), P) ELSE s

\* Array.prototype.filter keeping the non-empty strings.
RECURSIVE NonEmpty(_)
NonEmpty(ss) ==
  IF ss = <<>> THEN <<>>
  ELSE (IF Head(ss) = <<>> THEN <<>> ELSE <<Head(ss)>>) \o NonEmpty(Tail(ss))

\* ------------------------------------------------------------------------
\* enhanced-nlp.js, processNaturalLanguageInput: the pattern shortcuts
\* ------------------------------------------------------------------------
\* Message texts are kept as tags; the names they embed are in the result.
MkLocations(names) == [i \in 1..Len(names) |-> [name |-> names[i], timeContext |-> <<>>]]

MkRouteResult(names, mode, msg) ==
  [isRouteRequest |-> TRUE,
   locations |-> MkLocations(names),
   travelMode |-> mode,
   preferences |-> <<>>,
   message |-> msg,
   suggestedSequence |-> names]

\* The keyword test without its "to" alternative.
isLikelyRouteRequestWithoutTo(text) ==
  \E i \in 1..Len(text) : text[i] \in RoutingKeywordWords \ {"to", "toward", "towards", "toll", "tolls"}

\* /route|path|way|directions|from|to|travel|trip|journey|drive|walk|map|between/i
isLikelyRouteRequest(text) == \E i \in 1..Len(text) : text[i] \in RoutingKeywordWords

\* (inputText.match(/\bto\b/gi) || []).length >= 2
hasMultipleToKeywords(text) == Cardinality({i \in 1..Len(text) : Lower(text[i]) = "to"}) >= 2

\* The travel mode of the pattern shortcuts: \b(walk|walking|on foot)\b, then
\* \b(cycl|bike|biking|bicycle)\b, else driving.
ShortcutTravelMode(text) ==
  IF \/ \E i \in 1..Len(text) : Lower(text[i]) \in {"walk", "walking"}
     \/ \E i \in 1..Len(text) - 2 :
          Lower(text[i]) = "on" /\ IsSp(text[i + 1]) /\ Lower(text[i + 2]) = "foot"
  THEN "walking"
  ELSE IF \E i \in 1..Len(text) : Lower(text[i]) \in {"cycl", "bike", "biking", "bicycle"}
       THEN "cycling"
       ELSE "driving"

\* The parts after the first one: trim, drop one trailing [,.!?;], trim, keep
\* the non-empty ones.
RECURSIVE LaterWaypoints(_)
LaterWaypoints(parts) ==
  IF parts = <<>> THEN <<>>
  ELSE LET part == Trim(StripOne(Trim(Head(parts)), PunctA))
       IN (IF part # <<>> THEN <<part>> ELSE <<>>) \o LaterWaypoints(Tail(parts))

\* Waypoints of the text that follows "from" (or "route"): split on \bto\b;
\* the first part is pushed trimmed whenever it is a non-empty string
\* (the test precedes the trim), the later parts only when non-empty.
WaypointsAfter(after) ==
  LET toParts == SplitWord(after, "to")
  IN (IF toParts[1] # <<>> THEN <<Trim(toParts[1])>> ELSE <<>>)
       \o LaterWaypoints(Tail(toParts))

\* First index k >= from where the word w is followed by a blank;
\* 0 when there is none (the regex w\s+).
WordThenSp(s, W, from) ==
  LET hits == {k \in from..Len(s) - 1 : Lower(s[k]) \in W /\ IsSp(s[k + 1])}
  IN IF hits = {} THEN 0 ELSE Min(hits)

\* The last approach of the multi-waypoint branch: split on /\s+to\s+/i.
RECURSIVE SplitLaterWaypoints(_)
SplitLaterWaypoints(parts) ==
  IF parts = <<>> THEN <<>>
  ELSE LET part == StripOne(Trim(Head(parts)), PunctA)
       IN (IF part # <<>> THEN <<part>> ELSE <<>>) \o SplitLaterWaypoints(Tail(parts))

SplitFirstWaypoint(firstPart) ==
  IF HasWord(firstPart, "from")
  THEN LET k == WordThenSp(firstPart, {"from"}, 1)
           rest == IF k = 0 THEN <<>> ELSE SubSeq(firstPart, k + 2, Len(firstPart))
       IN IF k # 0 /\ rest # <<>> THEN <<Trim(rest)>> ELSE <<>>
  ELSE IF HasWord(firstPart, "route")
  THEN LET k == WordThenSp(firstPart, {"route"}, 1)
           rest == IF k = 0 THEN <<>> ELSE SubSeq(firstPart, k + 2, Len(firstPart))
       IN IF k # 0 /\ rest # <<>> THEN <<Trim(rest)>>
          ELSE IF firstPart # <<>> THEN <<firstPart>> ELSE <<>>
  ELSE LET cleanedFirst ==
             IF Len(firstPart) >= 2
                /\ Lower(firstPart[1]) \in
                     {"path", "walking", "driving", "cycling", "direction", "directions"}
                /\ IsSp(firstPart[2])
             THEN Trim(SubSeq(firstPart, 3, Len(firstPart)))
             ELSE firstPart
       IN IF cleanedFirst # <<>> THEN <<cleanedFirst>> ELSE <<>>

SplitWaypoints(text) ==
  LET parts == SplitTo(text)
  IN SplitFirstWaypoint(Trim(parts[1])) \o SplitLaterWaypoints(Tail(parts))

\* Lines 26-195: the waypoints of the multi-waypoint branch, <<>> when the
\* branch is not entered or none of its three approaches yields two.
MultiWaypoints(text) ==
  IF ~(hasMultipleToKeywords(text) /\ (HasWord(text, "from") \/ HasWord(text, "route")))
  THEN <<>>
  ELSE LET key == IF HasWord(text, "from") THEN "from" ELSE "route"
           sp == SplitWord(text, key)
           direct == IF Len(sp) >= 2 /\ sp[2] # <<>> THEN WaypointsAfter(sp[2]) ELSE <<>>
       IN IF Len(direct) >= 2 THEN direct
          ELSE LET last == SplitWaypoints(text)
               IN IF Len(last) >= 2 THEN last ELSE <<>>

\* Tail of simpleRoutePattern and walkingRoutePattern after the keyword at k:
\* \s+(.*?)\s+to\s+(.*?)(?:\s|$|\.|,) .  The first group is lazy, so it ends
\* at the first " to " separator; the second ends before the first blank,
\* full stop or comma.  <<>> when nothing matches, else <<group1, group2>>.
FromToGroups(s, k) ==
  LET seps == {j \in k + 2..Len(s) : ToSepAt(s, j)}
  IN IF k = 0 \/ seps = {} THEN <<>>
     ELSE LET j == Min(seps)
              stops == {e \in j + 3..Len(s) : s[e] \in {SP, ".", ","}}
              e == IF stops = {} THEN Len(s) + 1 ELSE Min(stops)
          IN <<SubSeq(s, k + 2, j - 1), SubSeq(s, j + 3, e - 1)>>

\* Keyword positions from which the tail can match at all.
FromToStart(s, W, from) ==
  LET hits == {k \in from..Len(s) - 1 :
                 /\ Lower(s[k]) \in W
                 /\ IsSp(s[k + 1])
                 /\ \E j \in k + 2..Len(s) : ToSepAt(s, j)}
  IN IF hits = {} THEN 0 ELSE Min(hits)

\* inputText.match(simpleRoutePattern): "from", "route from" and
\* "direction(s) from" all hand over to the same tail after "from".
simpleRouteMatch(text) == FromToGroups(text, FromToStart(text, {"from"}, 1))

\* inputText.match(walkingRoutePattern)
walkingRouteMatch(text) ==
  LET walks == {w \in 1..Len(text) : Lower(text[w]) \in {"walk", "walking"}}
  IN IF walks = {} THEN <<>>
     ELSE FromToGroups(text, FromToStart(text, {"from", "in"}, Min(walks) + 1))

BothGroups(m) == m # <<>> /\ m[1] # <<>> /\ m[2] # <<>>

\* The Gibbon example (lines 243-245, 420-423) needs words outside the
\* vocabulary; the tests are kept as word tests.
isGibbonExample(text) ==
  HasWord(text, "gibbon") /\ HasWord(text, "mediterranean") /\ HasWord(text, "constantinople")
    /\ HasWord(text, "1453")

GibbonNames == << <<"Mediterranean">>, <<"sub-Saharan", SP, "Africa">>, <<"China">>,
                  <<"Constantinople">> >>

GibbonResult ==
  [isRouteRequest |-> FALSE,
   locations |-> [i \in 1..4 |->
       [name |-> GibbonNames[i], timeContext |-> IF i = 4 THEN <<"1453">> ELSE <<>>]],
   travelMode |-> "driving",
   preferences |-> <<>>,
   message |-> "found locations in historical text",
   suggestedSequence |-> GibbonNames]

\* Lines 12-263: <<result>> when a shortcut returns before the request to the
\* language model is built, <<>> otherwise.
PatternShortcut(text) ==
  LET multi == MultiWaypoints(text)
      simple == simpleRouteMatch(text)
      walk == walkingRouteMatch(text)
  IN IF Len(multi) >= 2
     THEN <<MkRouteResult(multi, ShortcutTravelMode(text), "route with multiple stops")>>
     ELSE IF BothGroups(simple)
     THEN <<MkRouteResult(<<Trim(simple[1]), Trim(simple[2])>>, ShortcutTravelMode(text),
                          "route from A to B")>>
     ELSE IF BothGroups(walk)
     THEN <<MkRouteResult(<<Trim(walk[1]), Trim(walk[2])>>, "walking",
                          "walking route from A to B")>>
     ELSE IF isGibbonExample(text) THEN <<GibbonResult>>
     ELSE <<>>

\* ------------------------------------------------------------------------
\* enhanced-nlp.js, extractLocationsBasic and the fallback route pattern
\* ------------------------------------------------------------------------
\* wp.trim().replace(/[,.:;]+$/, '').trim()
CleanWaypoint(wp) == Trim(StripRun(Trim(wp), PunctB))

\* match.slice(1).filter(wp => wp).map(clean).filter(wp => wp.length > 0)
RECURSIVE CleanCaptures(_)
CleanCaptures(groups) ==
  IF groups = <<>> THEN <<>>
  ELSE LET wp == CleanWaypoint(Head(groups))
       IN (IF wp # <<>> THEN <<wp>> ELSE <<>>) \o CleanCaptures(Tail(groups))

\* The groups (.*?)(?:\s+to\s+(.*?)){0..n}(?:$|\.) from atom p on: every group
\* is lazy, so it ends at the first " to " separator while an optional group is
\* left, and at the first full stop or the end of the text otherwise.
RECURSIVE ToGroups(_, _, _)
ToGroups(s, p, n) ==
  LET stops == {q \in p..Len(s) : s[q] = DOT \/ (n > 0 /\ ToSepAt(s, q))}
      q == IF stops = {} THEN Len(s) + 1 ELSE Min(stops)
  IN IF q <= Len(s) /\ s[q] # DOT
     THEN <<SubSeq(s, p, q - 1)>> \o ToGroups(s, q + 3, n - 1)
     ELSE <<SubSeq(s, p, q - 1)>>

\* /from\s+(.*?)\s+to\s+(.*?)(?:\s+to\s+(.*?))?(?:\s+to\s+(.*?))?(?:\s+to\s+(.*?))?(?:$|\.)/i
\* (lines 447 and 606): the captures, <<>> when the pattern does not match.
FromToChain(text) ==
  LET k == FromToStart(text, {"from"}, 1)
  IN IF k = 0 THEN <<>>
     ELSE LET j == Min({j \in k + 2..Len(text) : ToSepAt(text, j)})
          IN <<SubSeq(text, k + 2, j - 1)>> \o ToGroups(text, j + 3, 3)

\* /^(.*?)\s+to\s+(.*?)(?:\s+to\s+(.*?))?(?:\s+to\s+(.*?))?(?:$|\.)/i (line 608)
StartToChain(text) ==
  LET seps == {j \in 1..Len(text) : ToSepAt(text, j)}
  IN IF seps = {} THEN <<>>
     ELSE LET j == Min(seps)
          IN <<SubSeq(text, 1, j - 1)>> \o ToGroups(text, j + 3, 2)

\* The separators of the look-around assertions of routePatterns.
KwSepAt(s, j, W) ==
  /\ j >= 1
  /\ j + 2 <= Len(s)
  /\ IsSp(s[j])
  /\ Lower(s[j + 1]) \in W
  /\ IsSp(s[j + 2])

ToWords == {"to", "toward", "towards"}
ToAndWords == {"to", "toward", "towards", "and", "then"}

\* Words of the vocabulary that are not made of letters only.
NonLetterWords == {"1453"}
ClassAtom(a) == IsSp(a) \/ (IsWord(a) /\ a \notin NonLetterWords)
LetterWord(a) == IsWord(a) /\ a \notin NonLetterWords

\* The capture ([A-Za-z][A-Za-z\s]+?) starting at atom p, lazily extended to
\* the first end q (exclusive) that satisfies the look-ahead; 0 when there is
\* none.  sepOk: the look-ahead accepts a separator of ToAndWords or the end
\* of the text; else it accepts a blank or the end of the text.
CaptureEnd(s, p, W, spOk) ==
  IF p > Len(s) \/ ~LetterWord(s[p]) THEN 0
  ELSE LET ends == {q \in p + 1..Len(s) + 1 :
                      /\ \A i \in p..q - 1 : ClassAtom(s[i])
                      /\ \/ (q = Len(s) + 1 /\ W # ToWords)
                         \/ (q <= Len(s) /\ KwSepAt(s, q, W))
                         \/ (spOk /\ q <= Len(s) /\ IsSp(s[q]))}
       IN IF ends = {} THEN 0 ELSE Min(ends)

\* One attempt of a routePatterns regex at atom p: the end of the match, 0
\* when no alternative matches there.  head: the first alternative is
\* \b(?:from|in)\s+ (pattern 1) or ^ (pattern 2).  The match starts at p and
\* the capture at cap.
RouteAltCapStart(s, p, anchored) ==
  IF anchored
  THEN (IF p = 1 /\ CaptureEnd(s, 1, ToWords, FALSE) # 0 THEN 1 ELSE 0)
  ELSE (IF p + 1 <= Len(s) /\ Lower(s[p]) \in {"from", "in"} /\ IsSp(s[p + 1])
           /\ CaptureEnd(s, p + 2, ToWords, FALSE) # 0
        THEN p + 2 ELSE 0)

RouteMatchAt(s, p, anchored) ==
  LET h == RouteAltCapStart(s, p, anchored)
  IN IF h # 0 THEN <<h, CaptureEnd(s, h, ToWords, FALSE)>>
     ELSE IF KwSepAt(s, p - 3, ToWords) /\ CaptureEnd(s, p, ToAndWords, FALSE) # 0
     THEN <<p, CaptureEnd(s, p, ToAndWords, FALSE)>>
     ELSE IF KwSepAt(s, p - 3, ToAndWords) /\ CaptureEnd(s, p, ToAndWords, FALSE) # 0
     THEN <<p, CaptureEnd(s, p, ToAndWords, FALSE)>>
     ELSE IF KwSepAt(s, p - 3, ToAndWords) /\ CaptureEnd(s, p, {}, TRUE) # 0
     THEN <<p, CaptureEnd(s, p, {}, TRUE)>>
     ELSE <<>>

\* [...text.matchAll(pattern)]: the captures of the successive matches.
\* m is the attempt at atom p.
RECURSIVE RouteMatches(_, _, _, _)
RouteMatches(s, p, anchored, m) ==
  IF p > Len(s) THEN <<>>
  ELSE IF m = <<>> THEN RouteMatches(s, p + 1, anchored, RouteMatchAt(s, p + 1, anchored))
  ELSE <<SubSeq(s, m[1], m[2] - 1)>>
         \o RouteMatches(s, m[2], anchored, RouteMatchAt(s, m[2], anchored))

\* [...new Set(xs)]: first occurrences, in order.
RECURSIVE Unique(_)
Unique(xs) ==
  IF xs = <<>> THEN <<>>
  ELSE LET init == Unique(SubSeq(xs, 1, Len(xs) - 1))
           x == xs[Len(xs)]
       IN IF \E i \in 1..Len(init) : init[i] = x THEN init ELSE Append(init, x)

\* Maximal runs "Cap( Cap)*" of /\b([A-Z][a-zA-Z]+(?:\s+[A-Z][a-zA-Z]+)*)\b/g,
\* left to right.
RECURSIVE CapRunEnd(_, _)
CapRunEnd(s, p) ==
  IF p + 2 <= Len(s) /\ IsSp(s[p + 1]) /\ s[p + 2] \in CapWords
  THEN CapRunEnd(s, p + 2)
  ELSE p

RECURSIVE CapRuns(_, _)
CapRuns(s, p) ==
  IF p > Len(s) THEN <<>>
  ELSE IF s[p] \in CapWords
  THEN LET e == CapRunEnd(s, p)
       IN <<SubSeq(s, p, e)>> \o CapRuns(s, e + 1)
  ELSE CapRuns(s, p + 1)

RECURSIVE DropListed(_, _)
DropListed(xs, L) ==
  IF xs = <<>> THEN <<>>
  ELSE (IF Head(xs) \in L THEN <<>> ELSE <<Head(xs)>>) \o DropListed(Tail(xs), L)

InSeq(x, xs) == \E i \in 1..Len(xs) : xs[i] = x

\* nonLocationWords of extractLocationsBasic (lines 687-693) and of
\* extractLocationsFromParagraph (lines 502-509), as one-word names.
CommonNonLocation ==
  {"I", "You", "He", "She", "They", "We", "It", "Who", "What", "Where", "When", "Why", "How",
   "January", "February", "March", "April", "May", "June", "July", "August", "September",
   "October", "November", "December",
   "Monday", "Tuesday", "Wednesday", "Thursday", "Friday", "Saturday", "Sunday",
   "The", "A", "An", "And", "Or", "But", "If", "Then", "So", "Because"}
BasicNonLocation ==
  {<<w>> : w \in CommonNonLocation \cup
     {"Route", "Path", "Map", "Directions", "Show", "Get", "Find", "Create", "Make", "Give"}}
ParagraphNonLocation ==
  {<<w>> : w \in CommonNonLocation \cup
     {"Although", "Since", "One", "Two", "Three", "Four", "Five", "Six", "Seven", "Eight",
      "Nine", "Ten", "First", "Second", "Third", "Fourth", "Fifth"}}

\* commonLocations of extractLocationsBasic (lines 700-722): the names whose
\* check term is a substring of the lower-cased text, in the order of the
\* list.  Of the vocabulary only "new york" and "paris" hold a check term.
RECURSIVE AddCommon(_, _)
AddCommon(locs, names) ==
  IF names = <<>> THEN locs
  ELSE AddCommon(IF InSeq(Head(names), locs) THEN locs ELSE Append(locs, Head(names)),
                 Tail(names))

BasicCommonLocations(text) ==
  (IF \E i \in 1..Len(text) - 2 :
        Lower(text[i]) = "new" /\ IsSp(text[i + 1]) /\ Lower(text[i + 2]) = "york"
   THEN << <<"New", SP, "York">> >> ELSE <<>>)
    \o (IF \E i \in 1..Len(text) : Lower(text[i]) = "paris" THEN << <<"Paris">> >> ELSE <<>>)

\* potentialLoc.replace(/\b\w/g, c => c.toUpperCase())
TitleStr(s) == [i \in 1..Len(s) |-> TitleWord(s[i])]

\* lowerText.split(/\b(from|to|and|then|towards?)\b/): the pieces that follow
\* "from", "to", "toward" or "towards", trimmed.
KeywordAtoms == {"from", "to", "and", "then", "toward", "towards"}

PieceAfter(low, i) ==
  LET stops == {q \in i + 1..Len(low) : low[q] \in KeywordAtoms}
      q == IF stops = {} THEN Len(low) + 1 ELSE Min(stops)
  IN Trim(SubSeq(low, i + 1, q - 1))

\* potentialLoc.length > 1, counted in characters: every word has two or more.
LongerThanOne(s) == Len(s) > 1 \/ (Len(s) = 1 /\ IsWord(s[1]))

RECURSIVE TryHarder(_, _, _)
TryHarder(low, i, locs) ==
  IF i > Len(low) THEN locs
  ELSE IF low[i] \in {"from", "to", "toward", "towards"}
  THEN LET piece == PieceAfter(low, i)
           formatted == TitleStr(piece)
       IN TryHarder(low, i + 1,
                    IF LongerThanOne(piece) /\ ~InSeq(formatted, locs)
                    THEN Append(locs, formatted) ELSE locs)
  ELSE TryHarder(low, i + 1, locs)

\* The manual split of lines 653-678.
RECURSIVE ManualLater(_)
ManualLater(parts) ==
  IF parts = <<>> THEN <<>>
  ELSE LET loc == Trim(StripRun(Trim(Head(parts)), PunctC))
           conj == {j \in 1..Len(loc) : KwSepAt(loc, j, {"and", "then"})}
       IN <<IF conj = {} THEN loc ELSE Trim(SubSeq(loc, 1, Min(conj) - 1))>>
            \o ManualLater(Tail(parts))

ManualSplit(text) ==
  LET parts == SplitTo(text)
      k == WordThenSp(parts[1], {"from"}, 1)
      firstLoc == IF k # 0 THEN Trim(SubSeq(parts[1], k + 2, Len(parts[1])))
                  ELSE Trim(parts[1])
  IN <<firstLoc>> \o ManualLater(Tail(parts))

\* Words of the vocabulary with "to" as a substring (text.includes('to')).
HasToSubstring(text) ==
  \E i \in 1..Len(text) : Lower(text[i]) \in {"to", "toward", "towards", "toll", "tolls"}

\* The cascade of extractLocationsBasic over the outcomes of its patterns:
\* w1, w2 the cleaned captures of multiWaypointPattern and the alternative
\* pattern, allMatches those of routePatterns, general the capitalised phrases
\* and common names.
BasicCascade(text, w1, w2, allMatches, general) ==
  IF Len(w1) >= 2 THEN w1
  ELSE IF Len(w2) >= 2 THEN w2
  ELSE IF Len(allMatches) >= 2 THEN Unique(allMatches)
  ELSE IF HasWord(text, "from") /\ HasToSubstring(text) /\ Len(SplitTo(text)) >= 2
  THEN ManualSplit(text)
  ELSE IF HasWord(text, "route") \/ HasWord(text, "from")
          \/ \E j \in 1..Len(text) : ToSepAt(text, j)
  THEN TryHarder(LowerStr(text), 1, general)
  ELSE general

extractLocationsBasic(text) ==
  BasicCascade(text,
    CleanCaptures(FromToChain(text)),
    CleanCaptures(StartToChain(text)),
    CleanCaptures(RouteMatches(text, 1, FALSE, RouteMatchAt(text, 1, FALSE)))
      \o CleanCaptures(RouteMatches(text, 1, TRUE, RouteMatchAt(text, 1, TRUE))),
    AddCommon(DropListed(CapRuns(text, 1), BasicNonLocation), BasicCommonLocations(text)))

\* ------------------------------------------------------------------------
\* enhanced-nlp.js, extractLocationsFromParagraph
\* ------------------------------------------------------------------------
\* text.split(/[.!?]+/).filter(s => s.trim().length > 0)
RECURSIVE Sentences(_)
Sentences(s) ==
  LET ends == {i \in 1..Len(s) : s[i] \in {".", "!", "?"}}
  IN IF ends = {} THEN (IF Trim(s) = <<>> THEN <<>> ELSE <<s>>)
     ELSE LET i == Min(ends)
              head == SubSeq(s, 1, i - 1)
          IN (IF Trim(head) = <<>> THEN <<>> ELSE <<head>>)
               \o Sentences(SubSeq(s, i + 1, Len(s)))

\* timePattern (lines 527, 554): a time keyword, blanks, then a number of one
\* to four digits.  Words of the vocabulary that end in a time keyword, and
\* those that begin with digits, with the digits the pattern captures.
TimeKeywordWords == {"in", "during", "around", "about", "circa", "year", "century"}
YearDigits(a) == CASE a = "1453" -> <<"1453">> [] OTHER -> <<>>

TimeContext(sentence) ==
  LET s == Trim(sentence)
      hits == {k \in 1..Len(s) - 2 :
                 Lower(s[k]) \in TimeKeywordWords /\ IsSp(s[k + 1])
                   /\ YearDigits(s[k + 2]) # <<>>}
  IN IF hits = {} THEN <<>> ELSE YearDigits(s[Min(hits) + 2])

\* commonLocations (lines 539-542) found as whole words, title-cased.
ParagraphCommonWords ==
  <<"mediterranean", "europe", "asia", "africa", "australia", "antarctica", "america",
    "pacific", "atlantic", "arctic", "sahara", "alps", "himalayas">>

RECURSIVE AddParagraphCommon(_, _, _)
AddParagraphCommon(sentence, k, locs) ==
  IF k > Len(ParagraphCommonWords) THEN locs
  ELSE LET formatted == <<TitleWord(ParagraphCommonWords[k])>>
           found == HasWord(sentence, ParagraphCommonWords[k])
           known == \E i \in 1..Len(locs) : locs[i].name = formatted
       IN AddParagraphCommon(sentence, k + 1,
            IF found /\ ~known
            THEN Append(locs, [name |-> formatted, timeContext |-> TimeContext(sentence)])
            ELSE locs)

SentenceLocations(sentence, locs) ==
  LET names == DropListed(CapRuns(sentence, 1), ParagraphNonLocation)
      caps == [i \in 1..Len(names) |->
                 [name |-> names[i], timeContext |-> TimeContext(sentence)]]
  IN AddParagraphCommon(sentence, 1, locs \o caps)

RECURSIVE ParagraphLocations(_, _)
ParagraphLocations(sentences, locs) ==
  IF sentences = <<>> THEN locs
  ELSE ParagraphLocations(Tail(sentences), SentenceLocations(Head(sentences), locs))

\* Lines 566-575: the first location of every name (exact comparison).
RECURSIVE UniqueByName(_)
UniqueByName(locs) ==
  IF locs = <<>> THEN <<>>
  ELSE LET init == UniqueByName(SubSeq(locs, 1, Len(locs) - 1))
           x == locs[Len(locs)]
       IN IF \E i \in 1..Len(init) : init[i].name = x.name THEN init ELSE Append(init, x)

Names(locs) == [i \in 1..Len(locs) |-> locs[i].name]

extractLocationsFromParagraph(text) ==
  LET uniqueLocations == UniqueByName(ParagraphLocations(Sentences(text), <<>>))
  IN [isRouteRequest |-> FALSE,
      locations |-> uniqueLocations,
      travelMode |-> "driving",
      preferences |-> <<>>,
      message |-> "found N locations in this text",
      suggestedSequence |-> Names(uniqueLocations)]

\* ------------------------------------------------------------------------
\* processNaturalLanguageInput: the catch block (lines 416-482)
\* ------------------------------------------------------------------------
isGibbonFallback(text) ==
  HasWord(text, "mediterranean") /\ HasWord(text, "sub-saharan") /\ HasWord(text, "china")
    /\ HasWord(text, "constantinople")

\* inputText.match(/\b(walking|cycling|driving|transit)\b/i)?.[1]?.toLowerCase() || 'driving'
FallbackTravelMode(text) ==
  LET hits == {i \in 1..Len(text) : Lower(text[i]) \in {"walking", "cycling", "driving", "transit"}}
  IN IF hits = {} THEN "driving" ELSE Lower(text[Min(hits)])

\* Both route results of the catch block take locations and
\* suggestedSequence from the same list of names, as MkRouteResult does.
FallbackResult(text) ==
  IF isGibbonFallback(text) THEN GibbonResult
  ELSE IF ~isLikelyRouteRequest(text) THEN extractLocationsFromParagraph(text)
  ELSE IF Len(CleanCaptures(FromToChain(text))) >= 2
  THEN MkRouteResult(CleanCaptures(FromToChain(text)), FallbackTravelMode(text),
                     "route with multiple stops")
  ELSE [MkRouteResult(extractLocationsBasic(text), FallbackTravelMode(text),
                      "had trouble understanding")
          EXCEPT !.isRouteRequest = isLikelyRouteRequest(text)]

\* ------------------------------------------------------------------------
\* nlp.js, extractLocationsWithRegex (the module script.js imports)
\* ------------------------------------------------------------------------
\* s.split(/\s+w\s+/i) for a keyword w.
RECURSIVE SplitKw(_, _)
SplitKw(s, w) ==
  LET hits == {i \in 1..Len(s) : KwSepAt(s, i, {w})}
  IN IF hits = {} THEN <<s>>
     ELSE LET i == Min(hits)
          IN <<SubSeq(s, 1, i - 1)>> \o SplitKw(SubSeq(s, i + 3, Len(s)), w)

\* s.split(/\s*,\s*/)
RECURSIVE SplitComma(_)
SplitComma(s) ==
  LET hits == {i \in 1..Len(s) : s[i] = ","}
  IN IF hits = {} THEN <<s>>
     ELSE LET i == Min(hits)
              a == IF i > 1 /\ IsSp(s[i - 1]) THEN i - 2 ELSE i - 1
              b == IF i < Len(s) /\ IsSp(s[i + 1]) THEN i + 2 ELSE i + 1
          IN <<SubSeq(s, 1, a)>> \o SplitComma(SubSeq(s, b, Len(s)))

\* Phrase tests \b(no x|avoid x|without x)\b: the word x itself, not its plural.
AvoidPhrase(s, x) ==
  \E i \in 1..Len(s) - 2 :
    Lower(s[i]) \in {"no", "avoid", "without"} /\ IsSp(s[i + 1]) /\ Lower(s[i + 2]) = x

RegexPreferences(n) ==
  [transportMode |-> ShortcutTravelMode(n),
   avoidTolls |-> AvoidPhrase(n, "toll"),
   avoidHighways |-> AvoidPhrase(n, "highway"),
   avoidFerries |-> AvoidPhrase(n, "ferr")]

\* Greedy ([A-Za-z\s]+)(?:\s|$) from atom p: the whole run of letters and
\* blanks when it reaches the end of the text, else the run cut before its
\* last blank; <<>> when neither exists.
RECURSIVE ClassRunEnd(_, _)
ClassRunEnd(s, p) == IF p <= Len(s) /\ ClassAtom(s[p]) THEN ClassRunEnd(s, p + 1) ELSE p

GreedyNameThenSpace(s, p) ==
  LET e == ClassRunEnd(s, p)
      cuts == {q \in p + 1..e - 1 : IsSp(s[q])}
  IN IF e = p THEN <<>>
     ELSE IF e = Len(s) + 1 THEN SubSeq(s, p, Len(s))
     ELSE IF cuts = {} THEN <<>>
     ELSE SubSeq(s, p, Max(cuts) - 1)

\* /route\s+from\s+([A-Za-z\s]+?)\s+to\s+([A-Za-z\s]+)(?:\s|$)/i : the two
\* captures, <<>> when the pattern does not match.
RouteFromToAt(s, k) ==
  LET js == {j \in k + 5..Len(s) :
               /\ ToSepAt(s, j)
               /\ \A i \in k + 4..j - 1 : ClassAtom(s[i])
               /\ GreedyNameThenSpace(s, j + 3) # <<>>}
  IN IF k + 4 <= Len(s) /\ Lower(s[k]) = "route" /\ IsSp(s[k + 1])
        /\ Lower(s[k + 2]) = "from" /\ IsSp(s[k + 3]) /\ js # {}
     THEN <<SubSeq(s, k + 4, Min(js) - 1), GreedyNameThenSpace(s, Min(js) + 3)>>
     ELSE <<>>

RouteFromToMatch(s) ==
  LET ks == {k \in 1..Len(s) : RouteFromToAt(s, k) # <<>>}
  IN IF ks = {} THEN <<>> ELSE RouteFromToAt(s, Min(ks))

\* part.replace(/^(from|to|in|at|starting|ending|beginning|route)\s+/i, '').trim()
StripLeadWord(part, W) ==
  IF Len(part) >= 2 /\ Lower(part[1]) \in W /\ IsSp(part[2])
  THEN SubSeq(part, 3, Len(part))
  ELSE part

RECURSIVE CleanParts(_)
CleanParts(parts) ==
  IF parts = <<>> THEN <<>>
  ELSE LET c == Trim(StripLeadWord(Head(parts),
                 {"from", "to", "in", "at", "starting", "ending", "beginning", "route"}))
       IN (IF c # <<>> THEN <<c>> ELSE <<>>) \o CleanParts(Tail(parts))

\* /between\s+([A-Za-z\s]+)\s+and\s+([A-Za-z\s]+)/i : both groups are greedy.
BetweenMatch(s) ==
  LET ks == {k \in 1..Len(s) - 1 :
               /\ Lower(s[k]) = "between" /\ IsSp(s[k + 1])
               /\ \E j \in k + 3..ClassRunEnd(s, k + 2) - 1 :
                    KwSepAt(s, j, {"and"}) /\ ClassRunEnd(s, j + 3) > j + 3}
  IN IF ks = {} THEN <<>>
     ELSE LET k == Min(ks)
              j == Max({j \in k + 3..ClassRunEnd(s, k + 2) - 1 :
                          KwSepAt(s, j, {"and"}) /\ ClassRunEnd(s, j + 3) > j + 3})
          IN <<Trim(SubSeq(s, k + 2, j - 1)), Trim(SubSeq(s, j + 3, ClassRunEnd(s, j + 3) - 1))>>

\* The separators tried in order (lines 1920-1970): the locations of the
\* first one that yields two or more parts, <<>> when none does.
SeparatorLocations(n) ==
  LET byTo == CleanParts(SplitTo(n))
      byAnd == CleanParts(SplitKw(n, "and"))
      byComma == CleanParts(SplitComma(n))
      byThrough == CleanParts(SplitKw(n, "through"))
      byVia == CleanParts(SplitKw(n, "via"))
  IN IF Len(byTo) >= 2 THEN byTo
     ELSE IF Len(byAnd) >= 2 THEN byAnd
     ELSE IF Len(byComma) >= 2 THEN byComma
     ELSE IF Len(byThrough) >= 2 THEN byThrough
     ELSE IF Len(byVia) >= 2 THEN byVia
     ELSE IF \E i \in 1..Len(n) : KwSepAt(n, i, {"between"}) THEN BetweenMatch(n)
     ELSE <<>>

\* s.replace(/\s+(route|path|directions?|map)$/i, '')
StripTailWord(s, W) ==
  IF Len(s) >= 2 /\ Lower(s[Len(s)]) \in W /\ IsSp(s[Len(s) - 1])
  THEN SubSeq(s, 1, Len(s) - 2)
  ELSE s

SingleLocation(n) ==
  LET a == StripLeadWord(n, {"show", "find", "get", "display", "route", "path",
                              "direction", "directions", "map"})
      b == StripLeadWord(a, {"from", "to", "in", "at"})
      cleanedText == Trim(StripTailWord(b, {"route", "path", "direction", "directions", "map"}))
  IN IF cleanedText # <<>> /\ cleanedText # n THEN <<cleanedText>> ELSE <<n>>

extractLocationsWithRegex(text) ==
  LET n == Trim(text)
      m == RouteFromToMatch(n)
      bySep == SeparatorLocations(n)
  IN [locations |-> IF m # <<>> THEN <<Trim(m[1]), Trim(m[2])>>
                    ELSE IF Len(bySep) >= 2 THEN bySep
                    ELSE SingleLocation(n),
      preferences |-> RegexPreferences(n)]

\* ------------------------------------------------------------------------
\* script.js, extractBasicRouteLocations and matchPartialCityName
\* ------------------------------------------------------------------------
commonCities ==
  << <<"New", SP, "York">>, <<"Los", SP, "Angeles">>, <<"San", SP, "Francisco">>,
     <<"Las", SP, "Vegas">>, <<"San", SP, "Diego">>, <<"Washington", SP, "DC">>,
     <<"New", SP, "Orleans">>, <<"San", SP, "Jose">>, <<"Saint", SP, "Louis">>,
     <<"St", SP, "Louis">>, <<"Mexico", SP, "City">>, <<"New", SP, "Delhi">>,
     <<"Hong", SP, "Kong">>, <<"Rio", SP, "de", SP, "Janeiro">>,
     <<"Buenos", SP, "Aires">>, <<"Tel", SP, "Aviv">>, <<"St", SP, "Petersburg">>,
     <<"Central", SP, "Park">>, <<"Times", SP, "Square">> >>

\* matchPartialCityName(name, commonCities) || name
FullCityName(name) ==
  LET cleaned == LowerStr(Trim(name))
      exact == {c \in 1..Len(commonCities) : LowerStr(commonCities[c]) = cleaned}
      partial == {c \in 1..Len(commonCities) :
                    Len(cleaned) = 1 /\ Lower(commonCities[c][1]) = cleaned[1]}
  IN IF name = <<>> THEN name
     ELSE IF exact # {} THEN commonCities[Min(exact)]
     ELSE IF partial # {} THEN commonCities[Min(partial)]
     ELSE name

FullCityNames(names) == [i \in 1..Len(names) |-> FullCityName(names[i])]

\* The tail \s+to\s+(.*?)(?:$|\.|\s+via\s+|\s+through\s+) after a first group
\* that starts at atom p: <<group1, group2>>, <<>> when there is no " to ".
ToViaGroups(s, p) ==
  LET seps == {j \in p..Len(s) : ToSepAt(s, j)}
  IN IF seps = {} THEN <<>>
     ELSE LET j == Min(seps)
              stops == {q \in j + 3..Len(s) :
                          s[q] = DOT \/ KwSepAt(s, q, {"via", "through"})}
              q == IF stops = {} THEN Len(s) + 1 ELSE Min(stops)
          IN <<SubSeq(s, p, j - 1), SubSeq(s, j + 3, q - 1)>>

\* specificRoutePattern (line 397): "route", blanks, an optional "from", then
\* the tail; the optional "from" is given up when the tail fails after it.
SpecificRouteAt(s, k) ==
  IF ~(k + 1 <= Len(s) /\ Lower(s[k]) = "route" /\ IsSp(s[k + 1])) THEN <<>>
  ELSE IF k + 3 <= Len(s) /\ Lower(s[k + 2]) = "from" /\ IsSp(s[k + 3])
          /\ ToViaGroups(s, k + 4) # <<>>
  THEN ToViaGroups(s, k + 4)
  ELSE ToViaGroups(s, k + 2)

SpecificRouteMatch(s) ==
  LET ks == {k \in 1..Len(s) : SpecificRouteAt(s, k) # <<>>}
  IN IF ks = {} THEN <<>> ELSE SpecificRouteAt(s, Min(ks))

\* fromToPattern (line 415)
FromInToMatch(s) ==
  LET ks == {k \in 1..Len(s) - 1 :
               Lower(s[k]) \in {"from", "in"} /\ IsSp(s[k + 1]) /\ ToViaGroups(s, k + 2) # <<>>}
  IN IF ks = {} THEN <<>> ELSE ToViaGroups(s, Min(ks) + 2)

\* part.trim().replace(/^[\s,;:]+/, '').replace(/[\s,;:.!?]+$/, '')
RECURSIVE StripLeadRun(_, _)
StripLeadRun(s, P) == IF Len(s) > 0 /\ s[1] \in P THEN StripLeadRun(Tail(s), P) ELSE s

RECURSIVE LowerWaypoints(_)
LowerWaypoints(parts) ==
  IF parts = <<>> THEN <<>>
  ELSE LET wp == StripRun(StripLeadRun(Trim(Head(parts)), {SP, ",", ";", ":"}),
                          {SP, ",", ";", ":", ".", "!", "?"})
       IN (IF wp # <<>> THEN <<wp>> ELSE <<>>) \o LowerWaypoints(Tail(parts))

\* The last resort of lines 475-503; a part counts as the first part when it
\* equals parts[0] as a string.
RECURSIVE LastResortParts(_, _)
LastResortParts(parts, first) ==
  IF parts = <<>> THEN <<>>
  ELSE LET part == Head(parts)
           c0 == Trim(part)
           c1 == IF part = first /\ Len(c0) >= 2 /\ Lower(c0[1]) = "from" /\ IsSp(c0[2])
                 THEN Trim(SubSeq(c0, 3, Len(c0))) ELSE c0
           c2 == IF part = first
                 THEN Trim(StripLeadWord(c1, {"walking", "driving", "cycling", "route", "path",
                                              "direction", "directions"}))
                 ELSE c1
           cleaned == Trim(StripRun(c2, PunctC))
       IN (IF cleaned # <<>> THEN <<cleaned>> ELSE <<>>) \o LastResortParts(Tail(parts), first)

extractBasicRouteLocations(text) ==
  LET n == Trim(StripRun(Trim(text), {".", "!", "?"}))
      specific == SpecificRouteMatch(n)
      fromTo == FromInToMatch(n)
      fromSplit == SplitWord(LowerStr(n), "from")
      toParts == IF Len(fromSplit) >= 2 THEN SplitWord(fromSplit[2], "to") ELSE <<>>
      direct == ToViaGroups(n, 1)
      parts == SplitTo(n)
  IN IF text = <<>> THEN <<>>
     ELSE IF BothGroups(specific) THEN FullCityNames(<<Trim(specific[1]), Trim(specific[2])>>)
     ELSE IF BothGroups(fromTo) THEN FullCityNames(<<Trim(fromTo[1]), Trim(fromTo[2])>>)
     ELSE IF HasWord(n, "from") /\ hasMultipleToKeywords(n) /\ Len(toParts) >= 2
     THEN FullCityNames(LowerWaypoints(toParts))
     ELSE IF BothGroups(direct) THEN FullCityNames(<<Trim(direct[1]), Trim(direct[2])>>)
     ELSE IF Len(parts) >= 2 THEN FullCityNames(LastResortParts(parts, parts[1]))
     ELSE <<>>

\* ------------------------------------------------------------------------
\* processNaturalLanguageInput: the request and the handling of the response
\* (lines 327-415)
\* ------------------------------------------------------------------------
ResultFields ==
  {"isRouteRequest", "locations", "travelMode", "preferences", "message", "suggestedSequence"}

\* A JavaScript object is a record over the fields it has; a missing field
\* reads as undefined, given here by the default of the reader.
Get(obj, field, default) == IF field \in DOMAIN obj THEN obj[field] ELSE default

\* Entries of the locations array of a response: strings, null, and objects
\* {name, timeContext}.
Str(name) == [isString |-> TRUE, name |-> name]
Null == [isString |-> FALSE, name |-> <<>>]
Obj(name, timeContext) == [isString |-> FALSE, name |-> name, timeContext |-> timeContext]

\* The braces of the completion text that holds exactly the JSON of object:
\* those of the object itself around those of its location objects.
RECURSIVE EntryBraces(_)
EntryBraces(entries) ==
  IF entries = <<>> THEN <<>>
  ELSE (IF "timeContext" \in DOMAIN Head(entries) THEN <<"{", "}">> ELSE <<>>)
         \o EntryBraces(Tail(entries))

ResponseBraces(object) ==
  <<"{">> \o EntryBraces(Get(object, "locations", <<>>)) \o <<"}">>

\* responseText.match(/{[\s\S]*?}/), line 357 and again line 388: lazy, from
\* the first opening brace to the first closing brace after it.
jsonMatch(braces) ==
  SubSeq(braces, 1, CHOOSE j \in 1..Len(braces) :
                      braces[j] = "}" /\ \A k \in 1..j - 1 : braces[k] # "}")

\* JSON.parse accepts the span only if every brace it opens is closed.
JsonParses(span) ==
  Cardinality({i \in 1..Len(span) : span[i] = "{"})
    = Cardinality({i \in 1..Len(span) : span[i] = "}"})

\* Lines 368-377: strings become {name, timeContext: ""}; entries without a
\* non-empty string name are dropped.
RECURSIVE NormalizeLocations(_)
NormalizeLocations(entries) ==
  IF entries = <<>> THEN <<>>
  ELSE (IF Head(entries).name # <<>>
        THEN <<[name |-> Head(entries).name,
                timeContext |-> Get(Head(entries), "timeContext", <<>>)]>>
        ELSE <<>>) \o NormalizeLocations(Tail(entries))

\* Outcomes of the request that end in the catch block.
FailureKinds ==
  {"transportError", "httpError", "invalidBody", "noCandidates", "malformedCandidate",
   "noJsonText", "brokenJson", "noLocationsArray"}

\* Outcomes whose text is a JSON object, as it stands or once line breaks are
\* replaced by blanks (lines 384-388).
ParsedKinds == {"json", "jsonAfterRepair", "noLocationsArray", "jsonLocationObjects"}

\* The response handling without the check of lines 363-365: a parsed object
\* is returned whether or not it has a locations array.
AfterFetchUnvalidated(text, resp) ==
  IF resp.kind \in ParsedKinds /\ JsonParses(jsonMatch(ResponseBraces(resp.object)))
  THEN (IF "locations" \in DOMAIN resp.object
        THEN [resp.object EXCEPT !.locations = NormalizeLocations(@)]
        ELSE resp.object)
  ELSE FallbackResult(text)

\* The value processNaturalLanguageInput resolves to once the request has an
\* outcome: the parsed object with its locations normalised, every other field
\* as the model sent it, or the result of the catch block.  The text of a
\* parsed kind is the JSON of the object and nothing else; what JSON.parse is
\* given is the span of jsonMatch.
AfterFetch(text, resp) ==
  IF /\ resp.kind \in ParsedKinds
     /\ JsonParses(jsonMatch(ResponseBraces(resp.object)))
     /\ "locations" \in DOMAIN resp.object
  THEN [resp.object EXCEPT !.locations = NormalizeLocations(@)]
  ELSE FallbackResult(text)

\* The request sent before the pattern shortcuts are tried.
FetchesIssuedEagerly(shortcut) == 1

\* Requests sent to /api/gemini by one call: the fetch of line 332 comes after
\* every pattern shortcut has returned.
FetchesIssued(shortcut) == IF shortcut # <<>> THEN 0 ELSE 1

\* ------------------------------------------------------------------------
\* script.js: handleProcessedResult, createRoute (synchronous part) and the
\* catch block of the click handler
\* ------------------------------------------------------------------------
View(kind, names, mode, prefs) ==
  [kind |-> kind, names |-> names, travelMode |-> mode, preferences |-> prefs]

EmptyView == View("empty", <<>>, "", <<>>)

\* createRoute, lines 1034-1049 of enhanced-nlp.js: the message area shows
\* the route being calculated, the travel mode is clamped to validModes.
createRoute(locations, travelMode, preferences) ==
  IF Len(locations) < 2 THEN View("needTwoLocations", <<>>, "", <<>>)
  ELSE View("route", locations,
            IF travelMode \in {"driving", "walking", "cycling"} THEN travelMode ELSE "driving",
            preferences)

handleProcessedResult(result) ==
  LET locations == Get(result, "locations", <<>>)
      locationNames == Names(locations)
      sequence == Get(result, "suggestedSequence", <<>>)
      mode == Get(result, "travelMode", "")
  IN IF Len(locations) = 0 THEN View("noLocations", <<>>, "", <<>>)
     ELSE IF Get(result, "isRouteRequest", FALSE) /\ Len(locationNames) >= 2
     THEN createRoute(IF Len(sequence) >= 2 THEN sequence ELSE locationNames,
                      IF mode = "" THEN "driving" ELSE mode,
                      Get(result, "preferences", <<>>))
     ELSE View("chips", locationNames, "", <<>>)

\* Lines 252-263
adaptedResult(regexResult) ==
  [isRouteRequest |-> TRUE,
   locations |-> MkLocations(regexResult.locations),
   travelMode |-> regexResult.preferences.transportMode,
   preferences |-> (IF regexResult.preferences.avoidTolls THEN <<"avoid tolls">> ELSE <<>>)
                   \o (IF regexResult.preferences.avoidHighways THEN <<"avoid highways">> ELSE <<>>)
                   \o (IF regexResult.preferences.avoidFerries THEN <<"avoid ferries">> ELSE <<>>),
   message |-> "route between A and B",
   suggestedSequence |-> regexResult.locations]

\* Lines 271-278
basicResult(basicLocations) ==
  [isRouteRequest |-> TRUE,
   locations |-> MkLocations(basicLocations),
   travelMode |-> "driving",
   preferences |-> <<>>,
   message |-> "route between A and B",
   suggestedSequence |-> basicLocations]

\* Lines 240-285: what the catch block of the click handler applies, given
\* the values of extractLocationsWithRegex and extractBasicRouteLocations.
CatchFallback(regexResult, basicLocations) ==
  IF Len(regexResult.locations) >= 2
  THEN [via |-> "regexFallback", result |-> <<adaptedResult(regexResult)>>,
        view |-> handleProcessedResult(adaptedResult(regexResult))]
  ELSE IF Len(basicLocations) >= 2
  THEN [via |-> "basicFallback", result |-> <<basicResult(basicLocations)>>,
        view |-> handleProcessedResult(basicResult(basicLocations))]
  ELSE [via |-> "failureMessage", result |-> <<>>,
        view |-> View("couldNotDetermine", <<>>, "", <<>>)]

\* Lines 151-154 of script.js
isGibbonText(text) == isGibbonExample(text)

\* ------------------------------------------------------------------------
\* nlp.js and nlp-secure.js: validateAndFormatResponse
\* ------------------------------------------------------------------------
\* A value of a preference field is a string: a transport mode, "true",
\* "false", a truthy string such as "yes", or JsNull for null.  A field the
\* object lacks is absent from the record.  The locations array holds the
\* entries Str(name) and Null.
JsNull == "null"
JsBool(b) == IF b THEN "true" ELSE "false"

validModes == {"driving", "walking", "cycling", "transit"}

defaultPreferences ==
  [transportMode |-> "driving", avoidTolls |-> "false", avoidHighways |-> "false",
   avoidFerries |-> "false"]

\* nlp.js, lines 1744-1771: the spread keeps every field the response has,
\* null included; only transportMode is checked against validModes.
validateAndFormatResponseNlp(response) ==
  LET provided == Get(response, "preferences", <<>>)
      merged == [f \in DOMAIN defaultPreferences \cup DOMAIN provided |->
                   IF f \in DOMAIN provided THEN provided[f] ELSE defaultPreferences[f]]
  IN [locations |-> Get(response, "locations", <<>>),
      preferences |->
        [merged EXCEPT !.transportMode = IF @ \in validModes THEN @ ELSE "driving"]]

\* response.locations.filter(loc => loc && typeof loc === 'string' && loc.trim().length > 0)
RECURSIVE NonBlankStrings(_)
NonBlankStrings(entries) ==
  IF entries = <<>> THEN <<>>
  ELSE (IF Head(entries).isString /\ Trim(Head(entries).name) # <<>>
        THEN <<Head(entries)>> ELSE <<>>) \o NonBlankStrings(Tail(entries))

\* nlp-secure.js, lines 2244-2271: the response itself is returned; a falsy
\* transportMode becomes 'driving', any other value is kept; each avoidance
\* flag becomes (value === true).
validateAndFormatResponseSecure(response) ==
  LET provided == Get(response, "preferences", <<>>)
      preferences ==
        [f \in DOMAIN defaultPreferences \cup DOMAIN provided |->
           IF f = "transportMode"
           THEN (IF Get(provided, f, JsNull) = JsNull THEN "driving" ELSE provided[f])
           ELSE IF f \in DOMAIN defaultPreferences
           THEN JsBool(Get(provided, f, JsNull) = "true")
           ELSE provided[f]]
  IN [f \in DOMAIN response \cup {"locations", "preferences"} |->
        IF f = "locations" THEN NonBlankStrings(Get(response, "locations", <<>>))
        ELSE IF f = "preferences" THEN preferences
        ELSE response[f]]

\* ------------------------------------------------------------------------
\* nlp.js, extractLocationsWithRegex (lines 1778-1863)
\* ------------------------------------------------------------------------
\* /(?:by|using|with|via)\s+(car|driving|walking|cycling|bike|transit|bus|train)/i:
\* the words of the vocabulary that end in the first group and those that
\* begin with the second are these words themselves.
ByWords == {"by", "using", "with", "via"}
ModeWords == {"car", "driving", "walking", "cycling", "bike", "transit", "bus", "train"}

transportModeNlp(query) ==
  LET hits == {i \in 1..Len(query) - 2 :
                 /\ Lower(query[i]) \in ByWords
                 /\ IsSp(query[i + 1])
                 /\ Lower(query[i + 2]) \in ModeWords}
      mode == Lower(query[Min(hits) + 2])
  IN IF hits = {} THEN "driving"
     ELSE IF mode = "car" THEN "driving"
     ELSE IF mode = "bike" THEN "cycling"
     ELSE IF mode \in {"bus", "train"} THEN "transit"
     ELSE mode

\* /avoid(?:ing)?\s+(?:toll|tolls)/i and its two siblings.
AvoidingPhrase(query, W) ==
  \E i \in 1..Len(query) - 2 :
    Lower(query[i]) \in {"avoid", "avoiding"} /\ IsSp(query[i + 1]) /\ Lower(query[i + 2]) \in W

preferencesNlp(query) ==
  [transportMode |-> transportModeNlp(query),
   avoidTolls |-> JsBool(AvoidingPhrase(query, {"toll", "tolls"})),
   avoidHighways |->
     JsBool(AvoidingPhrase(query, {"highway", "highways", "freeway", "freeways"})),
   avoidFerries |-> JsBool(AvoidingPhrase(query, {"ferry", "ferries"}))]

\* prepositionPattern (line 1828).  Words that end in from|to|through|via|
\* between|in|at, and words that begin with to|and|through|via.
PrepositionWords == {"from", "to", "through", "via", "between", "in", "at"}
SeparatorStartWords == {"to", "toward", "towards", "toll", "tolls", "and", "through", "via"}

\* One attempt at the preposition at atom k: the end (exclusive) of the lazy
\* capture ([A-Z][a-zA-Z0-9\s,]+?), 0 when the attempt fails.  The capture
\* starts with a letter and ends before a blank that is followed by a
\* separator, or at the end of the text.
PrepositionEnd(s, k) ==
  LET ends == {q \in k + 3..Len(s) + 1 :
                 /\ \A i \in k + 2..q - 1 : IsSp(s[i]) \/ s[i] = "," \/ IsWord(s[i])
                 /\ \/ q = Len(s) + 1
                    \/ /\ q + 1 <= Len(s)
                       /\ IsSp(s[q])
                       /\ Lower(s[q + 1]) \in SeparatorStartWords \cup {","}}
  IN IF k + 2 <= Len(s) /\ Lower(s[k]) \in PrepositionWords /\ IsSp(s[k + 1])
        /\ LetterWord(s[k + 2]) /\ ends # {}
     THEN Min(ends) ELSE 0

\* The exec loop of lines 1830-1834: e is the attempt at atom k.  The next
\* attempt starts behind the separator the match has consumed.
RECURSIVE PrepositionMatches(_, _, _)
PrepositionMatches(s, k, e) ==
  IF k > Len(s) THEN <<>>
  ELSE IF e = 0 THEN PrepositionMatches(s, k + 1, PrepositionEnd(s, k + 1))
  ELSE <<Trim(SubSeq(s, k + 2, e - 1))>>
         \o PrepositionMatches(s, e + 2, PrepositionEnd(s, e + 2))

\* query.split(/ to |, | and | => |,/gi).map(trim).filter(non-empty with a letter)
RECURSIVE SeparatorPieces(_)
SeparatorPieces(s) ==
  LET hits == {i \in 1..Len(s) : KwSepAt(s, i, {"to", "and"}) \/ s[i] = ","}
      i == Min(hits)
      after == IF s[i] # "," THEN i + 3
               ELSE IF i < Len(s) /\ IsSp(s[i + 1]) THEN i + 2 ELSE i + 1
      piece == Trim(IF hits = {} THEN s ELSE SubSeq(s, 1, i - 1))
  IN (IF \E j \in 1..Len(piece) : LetterWord(piece[j]) THEN <<piece>> ELSE <<>>)
       \o (IF hits = {} THEN <<>> ELSE SeparatorPieces(SubSeq(s, after, Len(s))))

\* Lines 1816-1862.  The last resort is reached only by a query without a
\* letter, which its prefix pattern cannot match.
locationsNlp(query, routeMatch, byPreposition) ==
  IF routeMatch # <<>> THEN <<Trim(routeMatch[1]), Trim(routeMatch[2])>>
  ELSE IF byPreposition # <<>> THEN byPreposition
  ELSE IF SeparatorPieces(query) # <<>> THEN SeparatorPieces(query)
  ELSE IF Trim(query) # <<>> THEN <<Trim(query)>>
  ELSE <<>>

extractLocationsWithRegexNlp(query) ==
  [locations |-> locationsNlp(query, RouteFromToMatch(query),
                              PrepositionMatches(query, 1, PrepositionEnd(query, 1))),
   preferences |-> preferencesNlp(query)]

\* ------------------------------------------------------------------------
\* nlp-secure.js, extractLocationsWithRegex (lines 2185-2237)
\* ------------------------------------------------------------------------
\* s.toLowerCase().startsWith('from ')
StartsWithFrom(s) == Len(s) >= 2 /\ Lower(s[1]) = "from" /\ IsSp(s[2])

RECURSIVE TrimAll(_)
TrimAll(parts) == IF parts = <<>> THEN <<>> ELSE <<Trim(Head(parts))>> \o TrimAll(Tail(parts))

\* cleanQuery.includes(a + ' ' + b), case-sensitive: the words of the
\* vocabulary that end in a and begin with b are a and b themselves.
IncludesPhrase(s, a, b) ==
  \E i \in 1..Len(s) - 2 : s[i] = a /\ IsSp(s[i + 1]) /\ s[i + 2] = b

locationsSecure(cleanQuery, parts) ==
  NonEmpty(
    IF Len(parts) > 1
    THEN (IF StartsWithFrom(cleanQuery)
          THEN <<Trim(StripLeadWord(parts[1], {"from"}))>> \o Tail(parts)
          ELSE parts)
    ELSE IF StartsWithFrom(cleanQuery) THEN <<Trim(StripLeadWord(cleanQuery, {"from"}))>>
    ELSE <<cleanQuery>>)

preferencesSecure(cleanQuery) ==
  [transportMode |->
     IF \E i \in 1..Len(cleanQuery) : cleanQuery[i] = "walking" THEN "walking"
     ELSE IF \E i \in 1..Len(cleanQuery) : cleanQuery[i] \in {"cycling", "bike"} THEN "cycling"
     ELSE "driving",
   avoidTolls |->
     JsBool(IncludesPhrase(cleanQuery, "avoid", "tolls") \/ IncludesPhrase(cleanQuery, "no", "tolls")),
   avoidHighways |->
     JsBool(IncludesPhrase(cleanQuery, "avoid", "highways")
              \/ IncludesPhrase(cleanQuery, "no", "highways")),
   avoidFerries |->
     JsBool(IncludesPhrase(cleanQuery, "avoid", "ferries")
              \/ IncludesPhrase(cleanQuery, "no", "ferries"))]

secureResult(cleanQuery) ==
  [locations |-> locationsSecure(cleanQuery, TrimAll(SplitTo(cleanQuery))),
   preferences |-> preferencesSecure(cleanQuery)]

extractLocationsWithRegexSecure(query) ==
  secureResult(Trim(StripRun(Trim(query), {".", "!", "?"})))

\* ------------------------------------------------------------------------
\* scripts-04.js and scripts-03.js: getRouteCoordinates and the click handler
\* ------------------------------------------------------------------------
StrEntries(names) == [i \in 1..Len(names) |-> Str(names[i])]

\* Array.prototype.toString: the entries joined by commas, null as ''.
RECURSIVE JoinComma(_)
JoinComma(entries) ==
  IF entries = <<>> THEN <<>>
  ELSE IF Len(entries) = 1 THEN entries[1].name
  ELSE entries[1].name \o <<",">> \o JoinComma(Tail(entries))

\* input.toLowerCase().includes(' to ')
hasToKeyword(inputText) == \E i \in 1..Len(inputText) : ToSepAt(inputText, i)

\* Lines 171-188: inputString after the trailing punctuation is removed, and
\* the locations split from it once a leading 'from ' is cut off.
inputStringOf(input) == Trim(StripRun(Trim(input), {".", "!", "?"}))

stringLocations(inputString) ==
  NonEmpty(TrimAll(SplitTo(
    IF StartsWithFrom(inputString)
    THEN Trim(SubSeq(inputString, 3, Len(inputString)))
    ELSE inputString)))

\* Lines 201-202
isRouteRequestBeforeGeocoding(input, locations) ==
  Len(locations) > 1 \/ StartsWithFrom(inputStringOf(input)) \/ hasToKeyword(input)

\* Lines 360-362
isRouteRequestAfterGeocoding(inputText, coordinates) ==
  Len(coordinates) > 1 \/ StartsWithFrom(Trim(inputText)) \/ hasToKeyword(inputText)

\* Lines 152-252: the call up to the geocoding requests.
getRouteCoordinates(inputText, locations, preferences, isLocationArray) ==
  [stage |-> IF Len(locations) < 1 THEN "alertNoLocations" ELSE "geocoding",
   isLocationArray |-> isLocationArray,
   input |-> inputText,
   locations |-> locations,
   preferences |-> preferences,
   before |-> IF isLocationArray THEN <<>>
              ELSE <<isRouteRequestBeforeGeocoding(inputText, locations)>>,
   after |-> <<>>]

getRouteCoordinatesOfString(input) ==
  getRouteCoordinates(input, StrEntries(stringLocations(inputStringOf(input))),
                      defaultPreferences, FALSE)

\* Lines 116-124 (scripts-03.js 74-80)
afterProcessing(result, inputValue) ==
  IF Len(result.locations) > 0
  THEN getRouteCoordinates(JoinComma(result.locations), result.locations,
                           result.preferences, TRUE)
  ELSE getRouteCoordinatesOfString(inputValue)

\* Lines 354-400: Promise.all has resolved with one coordinate per location.
afterGeocoding(call) ==
  [call EXCEPT
     !.after = <<isRouteRequestAfterGeocoding(call.input, call.locations)>>,
     !.stage = IF Len(call.locations) = 1
                  /\ ~isRouteRequestAfterGeocoding(call.input, call.locations)
               THEN "centred"
               ELSE IF Len(call.locations) < 2 THEN "alertTwoLocations"
               ELSE "routing"]

\* regexLocations && regexLocations.length >= 2 (nlp.js 1511, scripts-04.js
\* 133): the value is the object {locations, preferences}; a property it
\* lacks reads as undefined, which is not >= 2.
hasTwoRegexLocations(regexLocations) == Get(regexLocations, "length", 0) >= 2

\* ------------------------------------------------------------------------
\* Directions requests of the older pages
\* ------------------------------------------------------------------------
\* A JS value used as a condition: false, null and undefined are falsy, any
\* other value of a preference flag is truthy.
Truthy(v) == v \notin {"false", JsNull, "undefined"}

\* scripts-04.js, line 256
maxRouteAttempts == 2

\* scripts-04.js, lines 262-273: the body of the POST to /api/mapbox-directions.
\* The two optional parameters are added on the first attempt only.
requestBody(coordinates, preferences, attempt) ==
  LET body == [coordinates |-> coordinates,
               profile |-> Get(preferences, "transportMode", "undefined"),
               geometries |-> "geojson", overview |-> "full"]
  IN IF attempt = 1
     THEN body @@ [alternatives |-> "false", steps |-> "false"]
     ELSE body

\* scripts-03.js, lines 222-225
avoidParams(preferences) ==
  (IF Truthy(Get(preferences, "avoidTolls", "undefined")) THEN <<"tolls">> ELSE <<>>)
  \o (IF Truthy(Get(preferences, "avoidHighways", "undefined")) THEN <<"highways">> ELSE <<>>)
  \o (IF Truthy(Get(preferences, "avoidFerries", "undefined")) THEN <<"ferries">> ELSE <<>>)

\* scripts-03.js, lines 216-232: the URL of the GET to /api/directions, as
\* its parts; the exclude parameter is present when an avoidance is set.
directionsUrl(coordinates, preferences) ==
  LET url == [coordinates |-> coordinates,
              profile |-> Get(preferences, "transportMode", "undefined")]
  IN IF Len(avoidParams(preferences)) > 0
     THEN url @@ [exclude |-> avoidParams(preferences)]
     ELSE url

\* ------------------------------------------------------------------------
\* The map of script.js: showLocationsOnMap and createRoute
\* ------------------------------------------------------------------------
MapNames == {<<"Paris">>, <<"Rome">>}

\* The location lists createRoute and showLocationsOnMap are called with.
Waypoints == UNION {[1..n -> MapNames] : n \in 1..MaxWaypoints}

\* What the geocoder answers for one location: coordinates that are a pair of
\* numbers, a pair whose entries are not numbers, or no coordinates (an HTTP
\* error, or a body without a coordinates pair).
GeocodeOutcomes == {"ok", "unusable", "failed"}

\* A marker of the locations layer; by and call record how and for which
\* call the marker was made.
Feature(title, by, call) == [title |-> title, by |-> by, call |-> call]

\* The keys of the table of lines 947-960.
specialLocations ==
  {<<"Mediterranean">>, <<"sub-Saharan", SP, "Africa">>, <<"Constantinople">>, <<"Rome">>,
   <<"Egypt">>, <<"Mesopotamia">>, <<"Byzantine", SP, "Empire">>,
   <<"Ottoman", SP, "Empire">>, <<"Ancient", SP, "Greece">>, <<"Persia">>,
   <<"Holy", SP, "Roman", SP, "Empire">>, <<"Carthage">>}

\* String.prototype.includes
includes(s, t) == \E i \in 0..(Len(s) - Len(t)) : SubSeq(s, i + 1, i + Len(t)) = t

\* Lines 970-983: an exact key, or a key that contains the name or is
\* contained in it.
hasPredefinedCoordinates(name) ==
  \/ name \in specialLocations
  \/ \E knownLocation \in specialLocations :
       includes(name, knownLocation) \/ includes(knownLocation, name)

\* Lines 964-998: one feature for every name with predefined coordinates.
RECURSIVE predefinedFeatures(_, _)
predefinedFeatures(locationNames, call) ==
  IF locationNames = <<>> THEN <<>>
  ELSE (IF hasPredefinedCoordinates(Head(locationNames))
        THEN <<Feature(Head(locationNames), "table", call)>> ELSE <<>>)
       \o predefinedFeatures(Tail(locationNames), call)

\* Lines 945-1024: the data of the locations source when the function is
\* done.  The new features are appended to the data the source holds; the
\* function has no return statement.
tryAlternativeGeocoding(locationNames, currentData, call) ==
  IF Len(predefinedFeatures(locationNames, call)) > 0
  THEN currentData \o predefinedFeatures(locationNames, call)
  ELSE currentData

\* Lines 818-882: the features pushed for the first k locations, from
\* provided coordinates or from the answer of the geocoder.
RECURSIVE geocodedFeatures(_, _, _, _, _)
geocodedFeatures(locations, provided, outcomes, call, k) ==
  IF k = 0 THEN <<>>
  ELSE geocodedFeatures(locations, provided, outcomes, call, k - 1)
       \o (IF k \in provided THEN <<Feature(locations[k], "provided", call)>>
           ELSE IF outcomes[k] = "ok" THEN <<Feature(locations[k], "geocoder", call)>>
           ELSE <<>>)

\* Lines 878-881: the names of the first k locations whose geocoding threw.
RECURSIVE failedLocations(_, _, _, _)
failedLocations(locations, provided, outcomes, k) ==
  IF k = 0 THEN <<>>
  ELSE failedLocations(locations, provided, outcomes, k - 1)
       \o (IF k \notin provided /\ outcomes[k] # "ok" THEN <<locations[k]>> ELSE <<>>)

\* Lines 885-909: the data of the locations source when the call completes.
locationsAfterShow(locations, provided, outcomes, currentData, call) ==
  IF Len(geocodedFeatures(locations, provided, outcomes, call, Len(locations))) > 0
  THEN geocodedFeatures(locations, provided, outcomes, call, Len(locations))
  ELSE IF Len(failedLocations(locations, provided, outcomes, Len(locations))) > 0
  THEN tryAlternativeGeocoding(failedLocations(locations, provided, outcomes, Len(locations)),
                               currentData, call)
  ELSE currentData

\* Lines 1195-1223: the coordinates that pass the format check, in order;
\* .filter(Boolean) removes the others.
RECURSIVE formattedCoordinates(_, _, _)
formattedCoordinates(locations, outcomes, k) ==
  IF k = 0 THEN <<>>
  ELSE formattedCoordinates(locations, outcomes, k - 1)
       \o (IF outcomes[k] = "ok" THEN <<locations[k]>> ELSE <<>>)

\* Lines 1048-1049
actualTravelMode(travelMode) ==
  IF travelMode \in {"driving", "walking", "cycling"} THEN travelMode ELSE "driving"

\* Lines 1235-1243: the body of the POST to /api/mapbox-directions.
directionsBody(coordinates, travelMode) ==
  [coordinates |-> coordinates, profile |-> actualTravelMode(travelMode)]

\* ------------------------------------------------------------------------
\* Inputs: the texts a user types, the outcomes of the request
\* ------------------------------------------------------------------------
\* Items joined by single blanks; a full stop follows its word directly.
RECURSIVE Render(_)
Render(items) ==
  IF items = <<>> THEN <<>>
  ELSE LET init == Render(SubSeq(items, 1, Len(items) - 1))
           last == items[Len(items)]
       IN IF Len(items) = 1 \/ last = DOT THEN init \o <<last>> ELSE init \o <<SP, last>>

Texts == {Render(w) : w \in UNION {[1..n -> Items] : n \in 0..MaxWords}}

\* Texts of the two-query runs.
RaceTexts == {<<"Paris">>, <<"Paris", SP, "and", SP, "Rome">>, <<"from", SP, "Paris", SP, "to", SP, "Rome">>}

\* Objects the language model may answer with.
LMRoute ==
  [isRouteRequest |-> TRUE,
   locations |-> <<Str(<<"Paris">>), Str(<<"Rome">>)>>,
   travelMode |-> "walking",
   preferences |-> <<>>,
   message |-> "model message",
   suggestedSequence |-> << <<"Paris">>, <<"Rome">> >>]

LMMentions ==
  [isRouteRequest |-> FALSE,
   locations |-> <<Str(<<"Rome">>), Str(<<"ROME">>)>>,
   travelMode |-> "transit",
   preferences |-> <<>>,
   message |-> "model message",
   suggestedSequence |-> << <<"Rome">>, <<"ROME">> >>]

LMEmptyName ==
  [isRouteRequest |-> TRUE,
   locations |-> <<Str(<<"Paris">>), Str(<<>>), Str(<<"Rome">>)>>,
   travelMode |-> "driving",
   preferences |-> <<>>,
   message |-> "model message",
   suggestedSequence |-> << <<"Paris">>, <<>>, <<"Rome">> >>]

LMSingleRoute ==
  [isRouteRequest |-> TRUE,
   locations |-> <<Str(<<"Paris">>)>>,
   travelMode |-> "flying",
   preferences |-> <<>>,
   message |-> "model message",
   suggestedSequence |-> << <<"Paris">> >>]

LMLocationsOnly == [locations |-> <<Str(<<SP>>), Null, Str(<<"Rome">>)>>]

LMNoLocations ==
  [isRouteRequest |-> FALSE, travelMode |-> "driving", message |-> "model message"]

\* The object of the requested shape: locations are {name, timeContext}.
LMRequestedShape ==
  [isRouteRequest |-> TRUE,
   locations |-> <<Obj(<<"Rome">>, <<>>), Obj(<<"Paris">>, <<"1453">>)>>,
   travelMode |-> "cycling",
   preferences |-> <<>>,
   message |-> "model message",
   suggestedSequence |-> << <<"Rome">>, <<"Paris">> >>]

\* The same shape with no location.
LMRequestedShapeEmpty ==
  [isRouteRequest |-> FALSE,
   locations |-> <<>>,
   travelMode |-> "driving",
   preferences |-> <<>>,
   message |-> "model message",
   suggestedSequence |-> <<>>]

LMObjects == {LMRoute, LMMentions, LMEmptyName, LMSingleRoute, LMLocationsOnly}

Response(kind, object) == [kind |-> kind, object |-> object]

LMResponses ==
  {Response(k, LMNoLocations) : k \in FailureKinds}
    \cup {Response(k, o) : k \in {"json", "jsonAfterRepair"}, o \in LMObjects}
    \cup {Response("jsonLocationObjects", o) : o \in {LMRequestedShape, LMRequestedShapeEmpty}}

\* Route phrases: an optional "from", two or three place names joined by
\* "to", and an optional phrase about the way to travel.
PlaceNames == {<<"Paris">>, <<"Rome">>, <<"New", SP, "York">>}

TravelPhrases ==
  {<<>>, <<SP, "avoid", SP, "tolls">>, <<SP, "by", SP, "bus">>, <<SP, "by", SP, "transit">>}

PhraseTexts ==
  {from \o a \o <<SP, "to", SP>> \o b \o c \o phrase :
     from \in {<<>>, <<"from", SP>>},
     a \in PlaceNames,
     b \in PlaceNames,
     c \in {<<>>} \cup {<<SP, "to", SP>> \o n : n \in PlaceNames},
     phrase \in TravelPhrases}

\* Texts typed into the older pages: those of Texts, the same followed by a
\* blank and a full stop, the two-name route phrases, and "route from Paris
\* to Rome".
ScriptTexts ==
  Texts \cup {t \o <<SP, DOT>> : t \in Texts \ {<<>>}}
    \cup {t \in PhraseTexts : Cardinality({i \in 1..Len(t) : t[i] = "to"}) = 1}
    \cup {<<"route", SP, "from", SP, "Paris", SP, "to", SP, "Rome">>}

\* Objects the language model answers the older pages with (the arguments of
\* the function call, or the JSON object of the text).
ArgsRoute ==
  [locations |-> <<Str(<<"Paris">>), Str(<<"Rome">>)>>,
   preferences |-> [transportMode |-> "transit", avoidTolls |-> "true",
                    avoidHighways |-> "false", avoidFerries |-> "false"]]

ArgsNulls ==
  [locations |-> <<Str(<<"Paris">>)>>,
   preferences |-> [transportMode |-> JsNull, avoidTolls |-> JsNull,
                    avoidHighways |-> JsNull, avoidFerries |-> JsNull]]

ArgsPartial ==
  [locations |-> <<Null, Str(<<"Rome">>)>>,
   preferences |-> [transportMode |-> "flying", avoidTolls |-> "yes"]]

ArgsNoPreferences == [locations |-> <<Str(<<"Paris">>), Str(<<"Rome">>)>>]

ArgsNoLocations == [preferences |-> [avoidFerries |-> "true"]]

ArgsEmpty == [locations |-> <<>>]

LMArgs == {ArgsRoute, ArgsNulls, ArgsPartial, ArgsNoPreferences, ArgsNoLocations, ArgsEmpty}

\* Outcomes of a request of the older pages that throw: a non-OK status, a
\* body without a function call or a parsable object, the object null.
ScriptFailureKinds == {"httpError", "noStructuredData", "nullObject"}

ScriptResponses ==
  {Response("args", o) : o \in LMArgs} \cup {Response(k, <<>>) : k \in ScriptFailureKinds}

\* ------------------------------------------------------------------------
\* State
\* ------------------------------------------------------------------------
Queries == 1..MaxQueries

VARIABLES
  input,     \* input[q]: the text of the search box when query q is submitted
  pending,   \* queries not submitted yet
  latest,    \* the query submitted last, 0 before the first
  handler,   \* click handler of q: "idle", "racing" (awaiting Promise.race), "done"
  pnli,      \* processNaturalLanguageInput of q: "notStarted", "fetching", "resolved"
  timer,     \* the 15 s timer of q: "unset", "armed", "fired"
  lmCalls,   \* requests sent to /api/gemini for q
  outcome,   \* kind of the outcome of q's request, "" while there is none
  result,    \* <<value q's processNaturalLanguageInput resolved to>>, <<>> before
  applied,   \* <<what q's handler applied to the page>>, <<>> before
  ui,        \* message area and map: the view shown and the query that wrote it
  loading,   \* loading indicator: "hidden", "processing", "finding"
  app,       \* the page of the older front ends: "scripts-03" or "scripts-04"
  query,     \* the text of its search box
  search,    \* its click handler, race timer and loading indicator
  nl,        \* its call of processNaturalLanguage
  grc,       \* its call of getRouteCoordinates
  probe,     \* one extractor applied to one text, outside any page
  fr,        \* fr[c]: the directions requests of getRouteCoordinates call c
  routeAttempt, \* routeAttempt[c]: the attempt counter of call c (scripts-04.js 255)
  cr,        \* one call of createRoute or showLocationsOnMap and its geocoding
  map        \* the map of script.js: its route line and its location markers

\* The page of script.js.
pageVars == <<input, pending, latest, handler, pnli, timer, lmCalls, outcome, result, applied,
              ui, loading>>

\* The pages of scripts-03.js and scripts-04.js.
scriptVars == <<app, query, search, nl, grc>>

\* The directions requests of the older pages.
routeVars == <<fr, routeAttempt>>

\* createRoute and showLocationsOnMap of script.js.
mapVars == <<cr, map>>

vars == <<pageVars, scriptVars, probe, routeVars, mapVars>>

NoCall == [stage |-> "idle", calls |-> 0, via |-> "", result |-> <<>>]

NotCalled ==
  [stage |-> "notCalled", isLocationArray |-> FALSE, input |-> <<>>, locations |-> <<>>,
   preferences |-> defaultPreferences, before |-> <<>>, after |-> <<>>]

IdleSearch == [handler |-> "idle", timer |-> "unset", loadingIndicator |-> "none", alert |-> ""]

NoProbe == [fn |-> "", text |-> <<>>, value |-> <<>>]

Calls == 1..MaxCalls

\* A getRouteCoordinates call that has not reached its directions request.
NoRoute ==
  [stage |-> "idle", coordinates |-> <<>>, preferences |-> defaultPreferences,
   requests |-> <<>>, failures |-> 0, alerts |-> 0]

RoutesIdle ==
  /\ fr = [c \in Calls |-> NoRoute]
  /\ routeAttempt = [c \in Calls |-> 0]

\* No call of createRoute or showLocationsOnMap yet; the sources of the map
\* are created empty.
NoMapCall ==
  [n |-> 0, fn |-> "", stage |-> "done", locations |-> <<>>, provided |-> {},
   travelMode |-> "", preferences |-> <<>>, outcomes |-> <<>>, request |-> <<>>]

MapIdle ==
  /\ cr = NoMapCall
  /\ map = [locations |-> <<>>, route |-> <<>>, message |-> ""]

ScriptsIdle ==
  /\ app = "scripts-03"
  /\ query = <<>>
  /\ search = [IdleSearch EXCEPT !.handler = "done"]
  /\ nl = NoCall
  /\ grc = NotCalled

InitWith(inputs, submitted) ==
  /\ input \in inputs
  /\ pending = submitted
  /\ latest = 0
  /\ handler = [q \in Queries |-> "idle"]
  /\ pnli = [q \in Queries |-> "notStarted"]
  /\ timer = [q \in Queries |-> "unset"]
  /\ lmCalls = [q \in Queries |-> 0]
  /\ outcome = [q \in Queries |-> ""]
  /\ result = [q \in Queries |-> <<>>]
  /\ applied = [q \in Queries |-> <<>>]
  /\ ui = [owner |-> 0, view |-> EmptyView]
  /\ loading = "hidden"

\* One query, any text.
Init ==
  /\ InitWith({[q \in Queries |-> IF q = 1 THEN t ELSE <<>>] : t \in Texts}, {1})
  /\ ScriptsIdle
  /\ probe = NoProbe /\ RoutesIdle /\ MapIdle

\* Several queries submitted one after the other, possibly overlapping.
InitRace == InitWith([Queries -> RaceTexts], Queries) /\ ScriptsIdle /\ probe = NoProbe /\ RoutesIdle /\ MapIdle

\* One query, a route phrase.
InitPhrases ==
  /\ InitWith({[q \in Queries |-> IF q = 1 THEN t ELSE <<>>] : t \in PhraseTexts}, {1})
  /\ ScriptsIdle
  /\ probe = NoProbe /\ RoutesIdle /\ MapIdle

\* The page of script.js with nothing submitted.
PageIdle == InitWith({[q \in Queries |-> <<>>]}, {})

\* The click handler up to its first suspension (lines 143-231).  A pattern
\* shortcut resolves processNaturalLanguageInput without a request; the
\* continuation of the handler (lines 233-239) then runs before any timer.
Click(q) ==
  /\ q \in pending
  /\ q = Min(pending)
  /\ pending' = pending \ {q}
  /\ latest' = q
  /\ IF Trim(input[q]) = <<>>
     THEN /\ handler' = [handler EXCEPT ![q] = "done"]
          /\ UNCHANGED <<pnli, timer, lmCalls, result, applied, ui, loading>>
     ELSE IF isGibbonText(input[q])
     THEN /\ handler' = [handler EXCEPT ![q] = "done"]
          /\ loading' = "hidden"
          /\ ui' = [owner |-> q, view |-> View("chips", GibbonNames, "", <<>>)]
          /\ applied' = [applied EXCEPT ![q] =
               <<[via |-> "gibbon", result |-> <<>>, view |-> ui'.view]>>]
          /\ UNCHANGED <<pnli, timer, lmCalls, result>>
     ELSE /\ timer' = [timer EXCEPT ![q] = "armed"]
          /\ result' = [result EXCEPT ![q] = PatternShortcut(input[q])]
          /\ lmCalls' = [lmCalls EXCEPT ![q] = @ + FetchesIssued(result'[q])]
          /\ IF result'[q] # <<>>
             THEN /\ pnli' = [pnli EXCEPT ![q] = "resolved"]
                  /\ handler' = [handler EXCEPT ![q] = "done"]
                  /\ loading' = "hidden"
                  /\ ui' = [owner |-> q, view |-> handleProcessedResult(result'[q][1])]
                  /\ applied' = [applied EXCEPT ![q] =
                       <<[via |-> "nlp", result |-> result'[q], view |-> ui'.view]>>]
             ELSE /\ pnli' = [pnli EXCEPT ![q] = "fetching"]
                  /\ handler' = [handler EXCEPT ![q] = "racing"]
                  /\ loading' = "processing"
                  /\ UNCHANGED <<applied, ui>>
  /\ UNCHANGED <<input, outcome, scriptVars, probe, routeVars, mapVars>>

\* The request of q has an outcome: processNaturalLanguageInput resolves
\* (lines 346-482).  If the race is still open the handler goes on with
\* lines 233-239; if the timer has won, the value is dropped.
LMResponds(q, resp) ==
  /\ pnli[q] = "fetching"
  /\ pnli' = [pnli EXCEPT ![q] = "resolved"]
  /\ outcome' = [outcome EXCEPT ![q] = resp.kind]
  /\ result' = [result EXCEPT ![q] = <<AfterFetch(input[q], resp)>>]
  /\ IF handler[q] = "racing"
     THEN /\ handler' = [handler EXCEPT ![q] = "done"]
          /\ loading' = "hidden"
          /\ ui' = [owner |-> q, view |-> handleProcessedResult(result'[q][1])]
          /\ applied' = [applied EXCEPT ![q] =
               <<[via |-> "nlp", result |-> result'[q], view |-> ui'.view]>>]
     ELSE UNCHANGED <<handler, loading, ui, applied>>
  /\ UNCHANGED <<input, pending, latest, timer, lmCalls, scriptVars, probe, routeVars, mapVars>>

\* A timer whose expiry runs the catch block whether or not the race is over.
TimerFiresUnraced(q) ==
  /\ timer[q] = "armed"
  /\ timer' = [timer EXCEPT ![q] = "fired"]
  /\ handler' = [handler EXCEPT ![q] = "done"]
  /\ loading' = "finding"
  /\ applied' = [applied EXCEPT ![q] =
       <<CatchFallback(extractLocationsWithRegex(input[q]),
                       extractBasicRouteLocations(input[q]))>>]
  /\ ui' = [owner |-> q, view |-> applied'[q][1].view]
  /\ UNCHANGED <<input, pending, latest, pnli, lmCalls, outcome, result, scriptVars, probe, routeVars, mapVars>>

\* The 15 s timer of q fires (line 223).  If the race is still open the
\* handler runs its catch block (lines 240-285); the request is not aborted.
TimerFires(q) ==
  /\ timer[q] = "armed"
  /\ timer' = [timer EXCEPT ![q] = "fired"]
  /\ IF handler[q] = "racing"
     THEN /\ handler' = [handler EXCEPT ![q] = "done"]
          /\ loading' = "finding"
          /\ applied' = [applied EXCEPT ![q] =
               <<CatchFallback(extractLocationsWithRegex(input[q]),
                               extractBasicRouteLocations(input[q]))>>]
          /\ ui' = [owner |-> q, view |-> applied'[q][1].view]
     ELSE UNCHANGED <<handler, loading, ui, applied>>
  /\ UNCHANGED <<input, pending, latest, pnli, lmCalls, outcome, result, scriptVars, probe, routeVars, mapVars>>

Next ==
  \E q \in Queries :
    \/ Click(q)
    \/ \E resp \in LMResponses : LMResponds(q, resp)
    \/ TimerFires(q)

Spec == Init /\ [][Next]_vars

\* One query out of a few texts.  The page does not stall: the click is
\* handled, the armed timer fires (setTimeout, line 223) and the request gets
\* an outcome.
InitFair ==
  /\ InitWith({[q \in Queries |-> IF q = 1 THEN t ELSE <<>>] : t \in RaceTexts}, {1})
  /\ ScriptsIdle
  /\ probe = NoProbe /\ RoutesIdle /\ MapIdle

SpecFair == InitFair /\ [][Next]_vars /\ WF_vars(Next)

SpecPhrases == InitPhrases /\ [][Next]_vars

\* ------------------------------------------------------------------------
\* The extractors applied to a text on their own
\* ------------------------------------------------------------------------
\* Sentences about places and a year.
MaxParagraphWords == 5

ParagraphItems == {"Paris", "Rome", "and", "in", "1453"}

ParagraphTexts ==
  {Render(w) : w \in UNION {[1..n -> ParagraphItems] : n \in 1..MaxParagraphWords}}

InitExtract ==
  /\ PageIdle
  /\ ScriptsIdle
  /\ probe \in {[NoProbe EXCEPT !.text = t] : t \in PhraseTexts \cup ParagraphTexts}
  /\ RoutesIdle
  /\ MapIdle

\* The names of the route a pattern shortcut returned, if one did.
ShortcutNames(r) == IF r = <<>> THEN <<>> ELSE r[1].suggestedSequence

\* processNaturalLanguageInput up to the request (lines 10-260).
ApplyShortcut ==
  /\ probe.fn = ""
  /\ probe' = [probe EXCEPT !.fn = "processNaturalLanguageInput",
                            !.value = ShortcutNames(PatternShortcut(probe.text))]
  /\ UNCHANGED <<pageVars, scriptVars, routeVars, mapVars>>

\* extractBasicRouteLocations of script.js (lines 380-472).
ApplyExtractBasicRouteLocations ==
  /\ probe.fn = ""
  /\ probe' = [probe EXCEPT !.fn = "extractBasicRouteLocations",
                            !.value = extractBasicRouteLocations(probe.text)]
  /\ UNCHANGED <<pageVars, scriptVars, routeVars, mapVars>>

\* extractLocationsFromParagraph (lines 490-585).
ApplyExtractLocationsFromParagraph ==
  /\ probe.fn = ""
  /\ probe' = [probe EXCEPT !.fn = "extractLocationsFromParagraph",
                            !.value = extractLocationsFromParagraph(probe.text)]
  /\ UNCHANGED <<pageVars, scriptVars, routeVars, mapVars>>

NextExtract ==
  \/ ApplyShortcut
  \/ ApplyExtractBasicRouteLocations
  \/ ApplyExtractLocationsFromParagraph

SpecExtract == InitExtract /\ [][NextExtract]_vars

\* ------------------------------------------------------------------------
\* The older pages: scripts-04.js with nlp.js, scripts-03.js with nlp-secure.js
\* ------------------------------------------------------------------------
ScriptApps == {"scripts-03", "scripts-04"}

InitScripts ==
  /\ PageIdle
  /\ probe = NoProbe /\ RoutesIdle /\ MapIdle
  /\ app \in ScriptApps
  /\ query \in ScriptTexts
  /\ search = IdleSearch
  /\ nl = NoCall
  /\ grc = NotCalled

validated(response) ==
  IF app = "scripts-04" THEN validateAndFormatResponseNlp(response)
  ELSE validateAndFormatResponseSecure(response)

\* The final fallback of processNaturalLanguage (lines 1586 and 2059).
regexFallback(r) == [r EXCEPT !.locations = StrEntries(@)]

\* The catch block of scripts-04.js (lines 125-140) and of scripts-03.js
\* (lines 81-84).
catchFallback(regexLocations, inputValue) ==
  IF app = "scripts-04" /\ hasTwoRegexLocations(regexLocations)
  THEN getRouteCoordinates(JoinComma(StrEntries(regexLocations.locations)),
                           StrEntries(regexLocations.locations), defaultPreferences, TRUE)
  ELSE getRouteCoordinatesOfString(inputValue)

\* The click handler up to its await (scripts-04.js 90-112, scripts-03.js
\* 58-71).  processNaturalLanguage of nlp.js first tries the regex extractor
\* (lines 1509-1523), then sends the function-calling request; that of
\* nlp-secure.js sends the request at once.
SearchClick ==
  /\ search.handler = "idle"
  /\ IF Trim(query) = <<>>
     THEN /\ search' = [search EXCEPT !.handler = "done", !.alert = "enterQuery"]
          /\ UNCHANGED <<nl, grc>>
     ELSE IF app = "scripts-04" /\ hasTwoRegexLocations(extractLocationsWithRegexNlp(query))
     THEN /\ nl' = [nl EXCEPT !.stage = "done", !.via = "regexFirst",
                              !.result = <<extractLocationsWithRegexNlp(query)>>]
          /\ grc' = afterProcessing(regexFallback(nl'.result[1]), query)
          /\ search' = [search EXCEPT !.handler = "done", !.timer = "armed",
                          !.loadingIndicator =
                             IF grc'.stage = "alertNoLocations" THEN "none" ELSE "block"]
     ELSE /\ search' = [search EXCEPT !.handler = "awaiting",
                          !.timer = IF app = "scripts-04" THEN "armed" ELSE "unset",
                          !.loadingIndicator = "block"]
          /\ nl' = [nl EXCEPT !.stage = "functionCalling", !.calls = @ + 1]
          /\ UNCHANGED grc
  /\ UNCHANGED <<app, query, pageVars, probe, routeVars, mapVars>>

\* processNaturalLanguage resolves.  If the click handler still waits for it
\* (no timeout in scripts-04.js) it goes on with lines 114-124; the finally
\* block of scripts-03.js hides the loading indicator at once.
NlResolves(value, via) ==
  /\ nl' = [nl EXCEPT !.stage = "done", !.via = via, !.result = <<value>>]
  /\ IF search.handler = "awaiting"
     THEN /\ grc' = afterProcessing(value, query)
          /\ search' = [search EXCEPT !.handler = "done",
                          !.loadingIndicator =
                             IF app = "scripts-03" \/ grc'.stage = "alertNoLocations"
                             THEN "none" ELSE "block"]
     ELSE UNCHANGED <<search, grc>>

\* The function-calling request has an outcome (lines 1529-1531, 2020-2022).
\* A failure leads to the second request, the prompt-based one: no error the
\* first request throws carries the property fallback of line 1535.
FunctionCallResponds(resp) ==
  /\ nl.stage = "functionCalling"
  /\ IF resp.kind = "args"
     THEN NlResolves(validated(resp.object), "functionCalling")
     ELSE /\ nl' = [nl EXCEPT !.stage = "prompt", !.calls = @ + 1]
          /\ UNCHANGED <<search, grc>>
  /\ UNCHANGED <<app, query, pageVars, probe, routeVars, mapVars>>

\* A variant that sends the prompt-based request once more when it fails.
PromptRespondsRetrying(resp) ==
  /\ nl.stage = "prompt"
  /\ IF resp.kind = "args"
     THEN NlResolves(validated(resp.object), "prompt")
     ELSE IF nl.calls < 3
     THEN /\ nl' = [nl EXCEPT !.calls = @ + 1]
          /\ UNCHANGED <<search, grc>>
     ELSE NlResolves(regexFallback(IF app = "scripts-04"
                                   THEN extractLocationsWithRegexNlp(query)
                                   ELSE extractLocationsWithRegexSecure(query)), "regex")
  /\ UNCHANGED <<app, query, pageVars, probe, routeVars, mapVars>>

\* The prompt-based request has an outcome (lines 1580-1587, 2053-2060).
PromptResponds(resp) ==
  /\ nl.stage = "prompt"
  /\ IF resp.kind = "args"
     THEN NlResolves(validated(resp.object), "prompt")
     ELSE NlResolves(regexFallback(IF app = "scripts-04"
                                   THEN extractLocationsWithRegexNlp(query)
                                   ELSE extractLocationsWithRegexSecure(query)), "regex")
  /\ UNCHANGED <<app, query, pageVars, probe, routeVars, mapVars>>

\* The 10 s timer of scripts-04.js fires (lines 103-105, 125-140); it is never
\* cleared and processNaturalLanguage is not cancelled.
RaceTimerFires ==
  /\ search.timer = "armed"
  /\ IF search.handler = "awaiting"
     THEN /\ grc' = catchFallback(extractLocationsWithRegexNlp(query), query)
          /\ search' = [search EXCEPT !.timer = "fired", !.handler = "done",
                          !.loadingIndicator =
                             IF grc'.stage = "alertNoLocations" THEN "none" ELSE "block"]
     ELSE /\ search' = [search EXCEPT !.timer = "fired"]
          /\ UNCHANGED grc
  /\ UNCHANGED <<app, query, nl, pageVars, probe, routeVars, mapVars>>

\* The cell that holds the attempt counter of call c: routeAttempt is declared
\* inside getRouteCoordinates (scripts-04.js, line 255), one per call.
routeAttemptShared(c) == 1

routeAttemptOf(c) == c

\* scripts-04.js, lines 258-282: findRoute counts the attempt and sends the
\* directions request.
findRoute(c, coordinates, preferences) ==
  /\ routeAttempt' = [routeAttempt EXCEPT ![routeAttemptOf(c)] = @ + 1]
  /\ fr' = [fr EXCEPT ![c] =
              [@ EXCEPT !.stage = "fetching", !.coordinates = coordinates,
                        !.preferences = preferences,
                        !.requests = Append(@, requestBody(coordinates, preferences,
                                               routeAttempt'[routeAttemptOf(c)]))]]

\* Promise.all of the geocoding requests settles (lines 354-407): fulfilled
\* with one coordinate per location, or rejected.
GeocodingSettles(fulfilled) ==
  /\ grc.stage = "geocoding"
  /\ grc' = IF fulfilled THEN afterGeocoding(grc) ELSE [grc EXCEPT !.stage = "alertGeocoding"]
  /\ search' = [search EXCEPT !.loadingIndicator =
                  IF app = "scripts-04" /\ grc'.stage # "routing" THEN "none" ELSE @]
  /\ IF grc'.stage # "routing" THEN UNCHANGED routeVars
     ELSE IF app = "scripts-04" THEN findRoute(1, grc.locations, grc.preferences)
     ELSE /\ fr' = [fr EXCEPT ![1] =
                      [@ EXCEPT !.stage = "fetching", !.coordinates = grc.locations,
                                !.preferences = grc.preferences,
                                !.requests = <<directionsUrl(grc.locations, grc.preferences)>>]]
          /\ UNCHANGED routeAttempt
  /\ UNCHANGED <<app, query, nl, pageVars, probe, mapVars>>

\* The directions request of call c is answered.  scripts-04.js, lines
\* 283-351: a route is drawn, or the catch block retries until the counter
\* reaches maxRouteAttempts and then alerts; both ends hide the loading
\* indicator and reset the counter.  scripts-03.js, lines 236-275: a route is
\* drawn or one alert is shown; there is no retry.
DirectionsResponds(c, ok) ==
  /\ fr[c].stage = "fetching"
  /\ IF app = "scripts-03"
     THEN /\ fr' = [fr EXCEPT ![c] =
                      IF ok THEN [@ EXCEPT !.stage = "drawn"]
                      ELSE [@ EXCEPT !.stage = "failed", !.failures = @ + 1, !.alerts = @ + 1]]
          /\ UNCHANGED <<routeAttempt, search>>
     ELSE IF ok
     THEN /\ fr' = [fr EXCEPT ![c] = [@ EXCEPT !.stage = "drawn"]]
          /\ search' = [search EXCEPT !.loadingIndicator = "none"]
          /\ routeAttempt' = [routeAttempt EXCEPT ![routeAttemptOf(c)] = 0]
     ELSE IF routeAttempt[routeAttemptOf(c)] < maxRouteAttempts
     THEN /\ routeAttempt' = [routeAttempt EXCEPT ![routeAttemptOf(c)] = @ + 1]
          /\ fr' = [fr EXCEPT ![c] =
                      [@ EXCEPT !.failures = @ + 1,
                                !.requests = Append(@, requestBody(fr[c].coordinates,
                                                       fr[c].preferences,
                                                       routeAttempt'[routeAttemptOf(c)]))]]
          /\ UNCHANGED search
     ELSE /\ fr' = [fr EXCEPT ![c] =
                      [@ EXCEPT !.stage = "failed", !.failures = @ + 1, !.alerts = @ + 1]]
          /\ search' = [search EXCEPT !.loadingIndicator = "none"]
          /\ routeAttempt' = [routeAttempt EXCEPT ![routeAttemptOf(c)] = 0]
  /\ UNCHANGED <<app, query, nl, grc, pageVars, probe, mapVars>>

NextScripts ==
  \/ SearchClick
  \/ \E resp \in ScriptResponses : FunctionCallResponds(resp)
  \/ \E resp \in ScriptResponses : PromptResponds(resp)
  \/ RaceTimerFires
  \/ \E fulfilled \in BOOLEAN : GeocodingSettles(fulfilled)
  \/ \E ok \in BOOLEAN : DirectionsResponds(1, ok)

SpecScripts == InitScripts /\ [][NextScripts]_vars

SpecRace == InitRace /\ [][Next]_vars

\* ------------------------------------------------------------------------
\* The map of script.js.  A call starts when the one before it has settled.
\* ------------------------------------------------------------------------
\* showLocationsOnMap up to Promise.all (lines 794-883): the route line is
\* cleared and the geocoding requests are sent.  provided holds the indices
\* of the locations that come with coordinates.
showLocationsOnMap(locations, provided) ==
  /\ cr.stage = "done"
  /\ cr.n < MaxCalls
  /\ provided \subseteq 1..Len(locations)
  /\ cr' = [NoMapCall EXCEPT !.n = cr.n + 1, !.fn = "showLocationsOnMap",
                             !.stage = "geocoding", !.locations = locations,
                             !.provided = provided]
  /\ map' = [map EXCEPT !.route = <<>>]
  /\ UNCHANGED <<pageVars, scriptVars, probe, routeVars>>

\* The continuation of Promise.all in showLocationsOnMap (lines 885-909).
LocationsSettle(outcomes) ==
  /\ cr.fn = "showLocationsOnMap"
  /\ cr.stage = "geocoding"
  /\ cr' = [cr EXCEPT !.stage = "done", !.outcomes = SubSeq(outcomes, 1, Len(cr.locations))]
  /\ map' = [map EXCEPT !.locations =
               locationsAfterShow(cr.locations, cr.provided, outcomes, map.locations, cr.n)]
  /\ UNCHANGED <<pageVars, scriptVars, probe, routeVars>>

\* createRoute up to Promise.all (lines 1034-1107, 1393-1399), on a loaded
\* map: fewer than two locations end the call with a message, otherwise the
\* geocoding requests are sent.
processRoute(locations, travelMode, preferences) ==
  /\ cr.stage = "done"
  /\ cr.n < MaxCalls
  /\ cr' = [NoMapCall EXCEPT !.n = cr.n + 1, !.fn = "createRoute",
                             !.stage = IF Len(locations) < 2 THEN "done" ELSE "geocoding",
                             !.locations = locations, !.travelMode = travelMode,
                             !.preferences = preferences]
  /\ map' = [map EXCEPT !.message =
               IF Len(locations) < 2 THEN "needTwoLocations" ELSE "calculating"]
  /\ UNCHANGED <<pageVars, scriptVars, probe, routeVars>>

\* Promise.all of createRoute settles (lines 1109-1243, 1383-1390).  A
\* rejected geocoding request goes to the catch block of line 1383.
\* Otherwise the markers are replaced; the intercontinental check may end the
\* call; the coordinates that fail the format check are filtered out and the
\* directions request is sent when two or more remain.
GeocodePromisesSettle(outcomes, isPossiblyIntercontinental) ==
  /\ cr.fn = "createRoute"
  /\ cr.stage = "geocoding"
  /\ IF \E k \in 1..Len(cr.locations) : outcomes[k] = "failed"
     THEN /\ cr' = [cr EXCEPT !.stage = "done",
                              !.outcomes = SubSeq(outcomes, 1, Len(cr.locations))]
          /\ map' = [map EXCEPT !.message = "errorFindingLocations"]
     ELSE IF isPossiblyIntercontinental
     THEN /\ cr' = [cr EXCEPT !.stage = "done",
                              !.outcomes = SubSeq(outcomes, 1, Len(cr.locations))]
          /\ map' = [map EXCEPT !.locations =
                                   [k \in 1..Len(cr.locations) |->
                                      Feature(cr.locations[k], "geocoder", cr.n)],
                                !.route = <<>>,
                                !.message = "routeNotAvailableOcean"]
     ELSE IF Len(formattedCoordinates(cr.locations, outcomes, Len(cr.locations))) < 2
     THEN /\ cr' = [cr EXCEPT !.stage = "done",
                              !.outcomes = SubSeq(outcomes, 1, Len(cr.locations))]
          /\ map' = [map EXCEPT !.locations =
                                   [k \in 1..Len(cr.locations) |->
                                      Feature(cr.locations[k], "geocoder", cr.n)],
                                !.message = "errorFindingRoute"]
     ELSE /\ cr' = [cr EXCEPT !.stage = "directions",
                              !.outcomes = SubSeq(outcomes, 1, Len(cr.locations)),
                              !.request =
                                 <<directionsBody(
                                     formattedCoordinates(cr.locations, outcomes,
                                                          Len(cr.locations)),
                                     cr.travelMode)>>]
          /\ map' = [map EXCEPT !.locations =
                                   [k \in 1..Len(cr.locations) |->
                                      Feature(cr.locations[k], "geocoder", cr.n)]]
  /\ UNCHANGED <<pageVars, scriptVars, probe, routeVars>>

\* The directions request of createRoute is answered (lines 1244-1381): the
\* route is drawn, or the catch block clears the route line.
RouteDirectionsSettle(ok) ==
  /\ cr.fn = "createRoute"
  /\ cr.stage = "directions"
  /\ cr' = [cr EXCEPT !.stage = "done"]
  /\ map' = IF ok THEN [map EXCEPT !.route = <<cr.n>>, !.message = "routeDetails"]
            ELSE [map EXCEPT !.route = <<>>, !.message = "routeNotAvailable"]
  /\ UNCHANGED <<pageVars, scriptVars, probe, routeVars>>

\* The preferences createRoute is called with (script.js, lines 204, 323).
RoutePreferences == {<<>>, <<"avoid tolls">>}

InitMap ==
  /\ PageIdle
  /\ ScriptsIdle
  /\ probe = NoProbe
  /\ RoutesIdle
  /\ MapIdle

NextMap ==
  \/ \E locations \in Waypoints, provided \in {{}, {1}} : showLocationsOnMap(locations, provided)
  \/ \E outcomes \in [1..MaxWaypoints -> {"ok", "failed"}] : LocationsSettle(outcomes)
  \/ \E locations \in Waypoints, travelMode \in {"driving", "transit"},
        preferences \in RoutePreferences : processRoute(locations, travelMode, preferences)
  \/ \E outcomes \in [1..MaxWaypoints -> GeocodeOutcomes], isPossiblyIntercontinental \in BOOLEAN :
        GeocodePromisesSettle(outcomes, isPossiblyIntercontinental)
  \/ \E ok \in BOOLEAN : RouteDirectionsSettle(ok)

SpecMap == InitMap /\ [][NextMap]_vars

\* Concurrent getRouteCoordinates calls of scripts-04.js whose geocoding is
\* pending; the click handler has shown the loading indicator.
InitDirections ==
  /\ PageIdle
  /\ probe = NoProbe
  /\ RoutesIdle
  /\ MapIdle
  /\ app = "scripts-04"
  /\ query = <<>>
  /\ search = [IdleSearch EXCEPT !.handler = "done", !.loadingIndicator = "block"]
  /\ nl = NoCall
  /\ grc = NotCalled

\* Promise.all of call c resolves with two or more coordinates and calls
\* findRoute (scripts-04.js, lines 354-400).
CoordinatesResolve(c, coordinates, preferences) ==
  /\ fr[c].stage = "idle"
  /\ Len(coordinates) >= 2
  /\ findRoute(c, coordinates, preferences)
  /\ UNCHANGED <<pageVars, scriptVars, probe, mapVars>>

RouteCoordinates ==
  {<<(<<"Paris">>), (<<"Rome">>)>>, <<(<<"Paris">>), (<<"Rome">>), (<<"Paris">>)>>}

DirectionsPreferences ==
  {defaultPreferences, [defaultPreferences EXCEPT !.transportMode = "walking",
                                                  !.avoidTolls = "true"]}

NextDirections ==
  \/ \E c \in Calls, coordinates \in RouteCoordinates, preferences \in DirectionsPreferences :
        CoordinatesResolve(c, coordinates, preferences)
  \/ \E c \in Calls, ok \in BOOLEAN : DirectionsResponds(c, ok)

SpecDirections == InitDirections /\ [][NextDirections]_vars


\* ------------------------------------------------------------------------
\* Properties
\* ------------------------------------------------------------------------
TravelModes == {"driving", "walking", "cycling", "transit"}

Resolved(q) == result[q] # <<>>

ViaTimeout(q) ==
  applied[q] # <<>> /\ applied[q][1].via \in {"regexFallback", "basicFallback", "failureMessage"}

\* Route / mention classification of what is shown, with the names shown.
Classification(view) ==
  IF view.kind = "route" THEN "route" ELSE IF view.kind = "chips" THEN "mention" ELSE "none"

SequenceMatches(r) ==
  /\ "suggestedSequence" \in DOMAIN r
  /\ "locations" \in DOMAIN r
  /\ r.suggestedSequence = Names(r.locations)

\* C1: when a query is submitted while an earlier one is still in flight, then
\* once every handler has completed the message area and the map show the
\* result of the query submitted last: no completion of an earlier query
\* overwrites it.
C1_LatestQueryShown ==
  (pending = {} /\ \A q \in Queries : handler[q] = "done") => ui.owner = latest

\* C2: processNaturalLanguageInput never rejects: after every failure outcome of
\* the request (transport error, non-OK status, unreadable body, no candidate,
\* text without JSON, JSON failing both parse attempts, JSON without a
\* locations array) it has resolved to an object with exactly the six result
\* fields.
C2_FailureResolvesToFullResult ==
  \A q \in Queries :
    outcome[q] \in FailureKinds =>
      /\ pnli[q] = "resolved"
      /\ Len(result[q]) = 1
      /\ DOMAIN result[q][1] = ResultFields

C2_Witness ==
  \E q \in Queries :
    /\ outcome[q] = "noLocationsArray"
    /\ Resolved(q)
    /\ Len(result[q][1].locations) >= 1

\* A structured route pattern of stage 0 yields two or more waypoints.
StructuredRoute(text) ==
  \/ Len(MultiWaypoints(text)) >= 2
  \/ BothGroups(simpleRouteMatch(text))
  \/ BothGroups(walkingRouteMatch(text))

\* C3: whenever a structured route pattern (multi-waypoint, simple "from X to
\* Y", walking route) yields two or more waypoints, the call returns a
\* route-classified result and has sent no request to the language model.
C3_ShortcutSendsNoRequest ==
  \A q \in Queries :
    (handler[q] # "idle" /\ StructuredRoute(input[q])) =>
      /\ lmCalls[q] = 0
      /\ pnli[q] = "resolved"
      /\ Resolved(q)
      /\ result[q][1].isRouteRequest
      /\ Len(result[q][1].locations) >= 2

C3_Witness ==
  \E q \in Queries :
    /\ handler[q] = "done"
    /\ input[q] = <<"from", SP, "Paris", SP, "to", SP, "Rome">>
    /\ Resolved(q)
    /\ Names(result[q][1].locations) = << <<"Paris">>, <<"Rome">> >>
    /\ lmCalls[q] = 0

\* C4: a timeout is treated as a failure of the request: what the handler
\* applies when the 15 s timer wins the race has the locations and the route /
\* mention classification of what it applies, for the same text, when the
\* request fails before the timer.
C4_TimeoutAppliedAsFailure ==
  \A q \in Queries :
    ViaTimeout(q) =>
      /\ applied[q][1].view.names = handleProcessedResult(FallbackResult(input[q])).names
      /\ Classification(applied[q][1].view)
           = Classification(handleProcessedResult(FallbackResult(input[q])))

\* A text "A to B": place names A and B around a single "to", nothing else.
PlaceWords == Items \cap CapWords

AtoB(text) ==
  /\ Cardinality({j \in 1..Len(text) : Lower(text[j]) = "to"}) = 1
  /\ \A j \in 1..Len(text) : text[j] \in PlaceWords \cup {SP, "to"}
  /\ text[1] # "to"
  /\ text[Len(text)] # "to"

ToIndex(text) == CHOOSE j \in 1..Len(text) : Lower(text[j]) = "to"

AandB(text) ==
  <<SubSeq(text, 1, ToIndex(text) - 2), SubSeq(text, ToIndex(text) + 2, Len(text))>>

\* C5: for a text "A to B", when the request fails the value
\* processNaturalLanguageInput resolves to is a route with the locations A, B
\* in that order, and when the timer wins the race the route the click handler
\* applies is the route from A to B.
C5_AtoBRecovered ==
  \A q \in Queries :
    AtoB(input[q]) =>
      /\ outcome[q] \in FailureKinds =>
           /\ Resolved(q)
           /\ result[q][1].isRouteRequest
           /\ Names(result[q][1].locations) = AandB(input[q])
      /\ ViaTimeout(q) =>
           /\ applied[q][1].view.kind = "route"
           /\ applied[q][1].view.names = AandB(input[q])

C5_Witness ==
  \E q \in Queries :
    /\ input[q] = <<"Paris", SP, "to", SP, "Rome">>
    /\ outcome[q] \in FailureKinds
    /\ ViaTimeout(q)
    /\ applied[q][1].view.names = << <<"Paris">>, <<"Rome">> >>
    /\ Names(result[q][1].locations) = << <<"Paris">>, <<"Rome">> >>

\* C6: in every value processNaturalLanguageInput resolves to, and in every
\* adapted result the click handler builds, suggestedSequence has the length
\* of locations and lists the names of locations in order.
C6_SequenceMatchesLocations ==
  \A q \in Queries :
    /\ Resolved(q) => SequenceMatches(result[q][1])
    /\ (ViaTimeout(q) /\ applied[q][1].result # <<>>) =>
         SequenceMatches(applied[q][1].result[1])

\* C7: every value processNaturalLanguageInput resolves to with isRouteRequest
\* true has at least two locations.
C7_RouteHasTwoLocations ==
  \A q \in Queries :
    (Resolved(q) /\ Get(result[q][1], "isRouteRequest", FALSE)) =>
      Len(result[q][1].locations) >= 2

\* C8: the travel mode of every value processNaturalLanguageInput resolves to
\* is one of driving, walking, cycling, transit.
C8_TravelModeInEnum ==
  \A q \in Queries :
    Resolved(q) => Get(result[q][1], "travelMode", "undefined") \in TravelModes

\* C9: no value processNaturalLanguageInput resolves to has two locations
\* whose names are equal after trimming and case folding.
C9_NoDuplicateLocations ==
  \A q \in Queries :
    Resolved(q) =>
      \A i, j \in 1..Len(result[q][1].locations) :
        i < j => LowerStr(Trim(result[q][1].locations[i].name))
                   # LowerStr(Trim(result[q][1].locations[j].name))

\* C10: every location of every value processNaturalLanguageInput resolves to
\* has a non-empty name without blanks around it.
C10_NamesNonEmptyTrimmed ==
  \A q \in Queries :
    Resolved(q) =>
      \A i \in 1..Len(result[q][1].locations) :
        /\ result[q][1].locations[i].name # <<>>
        /\ Trim(result[q][1].locations[i].name) = result[q][1].locations[i].name

\* A value of processNaturalLanguage that validateAndFormatResponse returned.
Validated == nl.via \in {"functionCalling", "prompt"}

AvoidanceFlags == {"avoidTolls", "avoidHighways", "avoidFerries"}

\* C11: whatever object the language model answers with (no preferences, some
\* fields missing, fields set to null), the preferences validateAndFormatResponse
\* returns have a transportMode among driving, walking, cycling, transit and
\* the three avoidance flags, each true or false.
C11_PreferencesComplete ==
  Validated =>
    /\ DOMAIN defaultPreferences \subseteq DOMAIN nl.result[1].preferences
    /\ nl.result[1].preferences.transportMode \in validModes
    /\ \A f \in AvoidanceFlags : nl.result[1].preferences[f] \in {"true", "false"}

\* C16: a query costs at most one language-model request, whatever path it
\* takes: processNaturalLanguageInput of the current page and
\* processNaturalLanguage of both older pages.
C16_AtMostOneRequest ==
  /\ \A q \in Queries : lmCalls[q] <= 1
  /\ nl.calls <= 1

\* C16, as the code has it: processNaturalLanguageInput sends at most one
\* request per query; processNaturalLanguage sends at most two, the second one
\* (prompt-based) only after the function-calling request has failed, and a
\* result taken from the function-calling answer has cost exactly one.
C16_AtMostTwoRequests ==
  /\ \A q \in Queries : lmCalls[q] <= 1
  /\ nl.calls <= 2
  /\ (nl.via = "functionCalling" => nl.calls = 1)
  /\ (nl.calls = 2 => (nl.stage = "prompt" \/ nl.via \in {"prompt", "regex"}))

\* The second request was sent and answered.
C16_Witness == nl.calls = 2 /\ nl.via = "prompt" /\ grc.stage = "geocoding"

\* C18: for a string input, getRouteCoordinates classifies the request the
\* same way before geocoding and after every geocode has succeeded.
C18_ClassificationStable ==
  (~grc.isLocationArray /\ grc.before # <<>> /\ grc.after # <<>>)
    => grc.before = grc.after

\* The request text carries a route cue: it starts with "from" or holds the
\* word "to".
HasRouteCue == StartsWithFrom(Lower(query)) \/ hasToKeyword(query)

\* C19: a request with a route cue and fewer than two waypoints is shown as a
\* single place once geocoded; it is never answered with an alert.
C19_SinglePlaceShown ==
  (HasRouteCue /\ grc.after # <<>> /\ Len(grc.locations) = 1)
    => grc.stage = "centred"

\* A value processNaturalLanguageInput resolved to without a parsed answer of
\* the language model: from a pattern shortcut or from the catch block.
RegexOnly(q) == Resolved(q) /\ outcome[q] \notin {"json", "jsonAfterRepair"}

\* C20: no result built from the patterns alone has the mode transit: the
\* final fallback of processNaturalLanguage, the shortcuts and the catch block
\* of processNaturalLanguageInput, and the timeout fallback of the click
\* handler.
C20_NoTransitFromPatterns ==
  /\ nl.via = "regex" => nl.result[1].preferences.transportMode # "transit"
  /\ \A q \in Queries :
       /\ RegexOnly(q) => Get(result[q][1], "travelMode", "undefined") # "transit"
       /\ ViaTimeout(q) => applied[q][1].view.travelMode # "transit"

\* The text ends with the words "avoid tolls".
AsksToAvoidTolls(text) ==
  /\ Len(text) >= 3
  /\ SubSeq(text, Len(text) - 2, Len(text)) = <<"avoid", SP, "tolls">>

\* C12: for a text that says "avoid tolls", the value
\* processNaturalLanguageInput resolves to from a pattern shortcut or from the
\* catch block carries that preference, as the value from the language model
\* does.
C12_AvoidanceKeptAtEveryStage ==
  \A q \in Queries :
    (AsksToAvoidTolls(input[q]) /\ RegexOnly(q)) =>
      Get(result[q][1], "preferences", <<>>) # <<>>

\* A text "X to Y" or "from X to Y" with place names X and Y of one or more
\* words, and the pair <<X, Y>>.
XtoYTexts ==
  {from \o a \o <<SP, "to", SP>> \o b :
     from \in {<<>>, <<"from", SP>>}, a \in PlaceNames, b \in PlaceNames}

XandY(text) ==
  CHOOSE pair \in PlaceNames \X PlaceNames :
    \E from \in {<<>>, <<"from", SP>>} : text = from \o pair[1] \o <<SP, "to", SP>> \o pair[2]

\* C13: for a text "X to Y", with or without a leading "from", a result built
\* from the patterns alone (shortcut, catch block, timeout fallback) is a route
\* with exactly the two locations X and Y.
C13_XtoYGivesXandY ==
  \A q \in Queries :
    input[q] \in XtoYTexts =>
      /\ RegexOnly(q) =>
           /\ result[q][1].isRouteRequest
           /\ Names(result[q][1].locations) = XandY(input[q])
      /\ ViaTimeout(q) =>
           /\ applied[q][1].view.kind = "route"
           /\ applied[q][1].view.names = XandY(input[q])

\* A text "from A to B to C" and its segments A, B, C.
ChainTexts ==
  {<<"from", SP>> \o a \o <<SP, "to", SP>> \o b \o <<SP, "to", SP>> \o c :
     a \in PlaceNames, b \in PlaceNames, c \in PlaceNames}

Segments(text) == TrimAll(SplitTo(SubSeq(text, 3, Len(text))))

\* C14: for a text with "from" followed by two standalone "to", the
\* multi-waypoint shortcut of processNaturalLanguageInput and
\* extractBasicRouteLocations each return one waypoint per segment between
\* the "to"s, in the order of the text.
C14_WaypointPerSegment ==
  (probe.fn # "" /\ probe.text \in ChainTexts) => probe.value = Segments(probe.text)

\* The part of C14 about the shortcut alone.
C14_ShortcutWaypointPerSegment ==
  (probe.fn = "processNaturalLanguageInput" /\ probe.text \in ChainTexts)
    => probe.value = Segments(probe.text)

\* C15: when neither the shortcuts nor the catch block find a location, the
\* value processNaturalLanguageInput resolves to has isRouteRequest false, and
\* what the click handler then shows is the message that no location was
\* found: never a route, never place chips.
C15_NoLocationMeansNoRoute ==
  \A q \in Queries :
    (RegexOnly(q) /\ Len(Get(result[q][1], "locations", <<>>)) = 0) =>
      /\ ~Get(result[q][1], "isRouteRequest", FALSE)
      /\ (applied[q] # <<>> /\ applied[q][1].via = "nlp")
           => applied[q][1].view.kind = "noLocations"

\* C17: after the request has failed or timed out, the fallback classifies by
\* the number of locations it found: two or more are a route, exactly one is
\* a mention of that location, none is the empty result.  For the value of
\* the catch block of processNaturalLanguageInput (paragraph and basic
\* fallback) and for what the timeout handler of the click handler shows.
C17_FallbackClassifiesByCount ==
  \A q \in Queries :
    /\ (Resolved(q) /\ outcome[q] \in FailureKinds) =>
         (Get(result[q][1], "isRouteRequest", FALSE)
            <=> Len(Get(result[q][1], "locations", <<>>)) >= 2)
    /\ ViaTimeout(q) =>
         /\ Len(extractLocationsWithRegex(input[q]).locations) >= 2
              => applied[q][1].view.kind = "route"
         /\ Len(extractLocationsWithRegex(input[q]).locations) = 1
              => /\ applied[q][1].view.kind = "chips"
                 /\ applied[q][1].view.names = extractLocationsWithRegex(input[q]).locations

\* The part of C17 about the timeout handler alone.
C17_TimeoutClassifiesByCount ==
  \A q \in Queries :
    (ViaTimeout(q) /\ Len(extractLocationsWithRegex(input[q]).locations) = 1)
      => applied[q][1].view.kind = "chips"

\* The part of C17 about two or more locations found after a failure.
C17_TwoLocationsAreARoute ==
  \A q \in Queries :
    (Resolved(q) /\ outcome[q] \in FailureKinds
       /\ Len(Get(result[q][1], "locations", <<>>)) >= 2)
      => Get(result[q][1], "isRouteRequest", FALSE)

\* C21: when the completion text is exactly one well-formed JSON object of the
\* requested shape, with locations {name, timeContext}, the value
\* processNaturalLanguageInput resolves to is the parsed object: its locations
\* and its message are those of the language model, not those of the catch
\* block.
C21_WellFormedJsonIsReturned ==
  \A q \in Queries :
    (Resolved(q) /\ outcome[q] = "jsonLocationObjects") =>
      /\ result[q][1].message = "model message"
      /\ \/ Names(result[q][1].locations) = << <<"Rome">>, <<"Paris">> >>
         \/ result[q][1].locations = <<>>

\* Positions of the time expressions of a text: a time keyword, a blank, a
\* year.
TimeExpressions(text) ==
  {k \in 1..Len(text) - 2 :
     Lower(text[k]) \in TimeKeywordWords /\ IsSp(text[k + 1]) /\ YearDigits(text[k + 2]) # <<>>}

\* The name stands right before the time expression at k, or right after it.
AdjacentTo(text, k, name) ==
  \/ /\ k - 1 - Len(name) >= 1
     /\ IsSp(text[k - 1])
     /\ SubSeq(text, k - 1 - Len(name), k - 2) = name
  \/ /\ k + 3 + Len(name) <= Len(text)
     /\ IsSp(text[k + 3])
     /\ SubSeq(text, k + 4, k + 3 + Len(name)) = name

\* C22: extractLocationsFromParagraph attaches a time expression only to the
\* location next to it: for one sentence with one time expression and two or
\* more locations, every location that does not stand next to the expression
\* has an empty timeContext, and the result is not a route request.
C22_TimeContextOnlyOnAdjacent ==
  (/\ probe.fn = "extractLocationsFromParagraph"
   /\ Cardinality(TimeExpressions(probe.text)) = 1
   /\ Len(probe.value.locations) >= 2) =>
    /\ ~probe.value.isRouteRequest
    /\ \A i \in 1..Len(probe.value.locations) :
         probe.value.locations[i].timeContext # <<>> =>
           \E k \in TimeExpressions(probe.text) :
             AdjacentTo(probe.text, k, probe.value.locations[i].name)

\* The part of C22 about the classification alone.
C22_ParagraphIsMention ==
  probe.fn = "extractLocationsFromParagraph" => ~probe.value.isRouteRequest

\* The ways an outcome reaches the page: the value of
\* processNaturalLanguageInput, or one of the three ends of the catch block.
OutcomeKinds == {"nlp", "regexFallback", "basicFallback", "failureMessage"}

C25_ResultFirst ==
  \E q \in Queries :
    /\ applied[q] # <<>>
    /\ applied[q][1].via = "nlp"
    /\ timer[q] = "fired"
    /\ outcome[q] # ""

\* C26: after a non-blank query is submitted the loading indicator is
\* eventually hidden, whether processNaturalLanguageInput answers in time or
\* the timer fires and the catch block ends in a route or in the failure
\* message.
C26_LoadingEventuallyHidden ==
  \A q \in Queries : (handler[q] = "racing") ~> (loading = "hidden")

\* The part of C26 about the value arriving in time.
C26_HiddenOnSuccess ==
  \A q \in Queries :
    (applied[q] # <<>> /\ applied[q][1].via = "nlp" /\ latest = q) => loading = "hidden"

\* C28: on the page of scripts-04.js, when extractLocationsWithRegex finds two
\* or more locations in the query, processNaturalLanguage returns them without
\* any language-model request, and getRouteCoordinates, also when called from
\* the error handler, is given the locations as an array.
C28_RegexFirst ==
  (/\ app = "scripts-04"
   /\ search.handler # "idle"
   /\ Len(extractLocationsWithRegexNlp(query).locations) >= 2) =>
    /\ nl.calls = 0
    /\ grc.stage # "notCalled" => grc.isLocationArray

\* The part of C28 about the error handler alone.
C28_ErrorHandlerPassesArray ==
  (/\ app = "scripts-04"
   /\ search.timer = "fired"
   /\ nl.stage # "done"
   /\ Len(extractLocationsWithRegexNlp(query).locations) >= 2) =>
    grc.isLocationArray

\* The avoidances a preferences object asks for, as the Router names them.
Avoidances(preferences) ==
  {a \in {"tolls", "highways", "ferries"} :
     Truthy(Get(preferences,
                IF a = "tolls" THEN "avoidTolls"
                ELSE IF a = "highways" THEN "avoidHighways" ELSE "avoidFerries",
                "undefined"))}

Carries(request, a) ==
  \E i \in 1..Len(Get(request, "exclude", <<>>)) : request.exclude[i] = a

\* C23: every directions request sent for a result whose preferences include
\* an avoidance (tolls, highways, ferries) carries the corresponding
\* avoid/exclude value.
C23_AvoidanceReachesRouter ==
  \A c \in Calls : \A i \in 1..Len(fr[c].requests) :
    \A a \in Avoidances(fr[c].preferences) : Carries(fr[c].requests[i], a)

\* The request of scripts-03.js does carry the avoidances.
C23_Scripts03CarriesExclude ==
  app = "scripts-03" =>
    \A c \in Calls : \A i \in 1..Len(fr[c].requests) :
      \A a \in Avoidances(fr[c].preferences) : Carries(fr[c].requests[i], a)

C23_Scripts03Witness ==
  /\ app = "scripts-03"
  /\ Len(fr[1].requests) = 1
  /\ Avoidances(fr[1].preferences) # {}

\* C27: for one getRouteCoordinates call of scripts-04.js findRoute sends at
\* most two directions requests, the second only after the first failed;
\* after the second failure exactly one alert is shown and no further request
\* is sent; when the call has ended (route drawn, or final failure) the
\* loading indicator is hidden and routeAttempt is 0; and the counter of a
\* call counts the requests of that call only, whatever concurrent calls do.
C27_FindRouteRetriesOnce ==
  \A c \in Calls :
    /\ Len(fr[c].requests) <= 2
    /\ Len(fr[c].requests) <= fr[c].failures + 1
    /\ fr[c].alerts <= 1
    /\ fr[c].alerts = 1 <=> fr[c].failures = 2
    /\ fr[c].failures = 2 => fr[c].stage = "failed" /\ Len(fr[c].requests) = 2
    /\ fr[c].stage \in {"drawn", "failed"} =>
         routeAttempt[c] = 0 /\ search.loadingIndicator = "none"
    /\ fr[c].stage = "fetching" => routeAttempt[c] = Len(fr[c].requests)
    /\ fr[c].stage = "idle" => routeAttempt[c] = 0

\* One call has alerted after its second failure while a concurrent call drew
\* its route on the retry.
C27_Witness ==
  /\ fr[1].stage = "failed"
  /\ fr[1].alerts = 1
  /\ Len(fr[1].requests) = 2
  /\ fr[2].stage = "drawn"
  /\ fr[2].failures = 1
  /\ search.loadingIndicator = "none"

\* C24: a directions request of createRoute is sent only after every
\* waypoint has been geocoded, and its coordinate list has the same length
\* and the same order as the waypoint list; when a waypoint fails to geocode
\* or yields unusable coordinates, no request is sent without it.
C24_CoordinatesMatchWaypoints ==
  cr.fn = "createRoute" /\ cr.request # <<>> =>
    /\ Len(cr.outcomes) = Len(cr.locations)
    /\ \A k \in 1..Len(cr.locations) : cr.outcomes[k] = "ok"
    /\ cr.request[1].coordinates = cr.locations

\* The request of getRouteCoordinates holds one coordinate per location, in
\* the order of the locations.
C24_ScriptsCoordinatesMatch ==
  fr[1].requests # <<>> =>
    /\ grc.stage = "routing"
    /\ \A i \in 1..Len(fr[1].requests) : fr[1].requests[i].coordinates = grc.locations

\* The locations of the current showLocationsOnMap call that were resolved:
\* by provided coordinates, by the geocoder, or by the predefined table after
\* the geocoder failed.
ResolvedLocations ==
  {k \in 1..Len(cr.locations) :
     \/ k \in cr.provided
     \/ cr.outcomes[k] = "ok"
     \/ hasPredefinedCoordinates(cr.locations[k])}

\* C29: when showLocationsOnMap completes, the locations layer holds exactly
\* one marker for every resolved location of the current call and no marker
\* left over from a previous call.
C29_OneMarkerPerResolvedLocation ==
  cr.fn = "showLocationsOnMap" /\ cr.stage = "done" =>
    /\ \A i \in 1..Len(map.locations) : map.locations[i].call = cr.n
    /\ \A name \in MapNames :
         Cardinality({i \in 1..Len(map.locations) : map.locations[i].title = name})
           = Cardinality({k \in ResolvedLocations : cr.locations[k] = name})

\* With every location resolved by provided coordinates or by the geocoder
\* the layer holds exactly the markers of the current call.
C29_MarkersWhenGeocoderAnswers ==
  /\ cr.fn = "showLocationsOnMap"
  /\ cr.stage = "done"
  /\ \A k \in 1..Len(cr.locations) : k \in cr.provided \/ cr.outcomes[k] = "ok"
  => map.locations = [k \in 1..Len(cr.locations) |->
                        Feature(cr.locations[k],
                                IF k \in cr.provided THEN "provided" ELSE "geocoder", cr.n)]

\* C30: when a createRoute call for two or more locations has ended without
\* drawing a route (geocoding failure, unusable coordinates, intercontinental
\* check, directions failure), the map shows no route line of an earlier
\* call.
C30_EarlierRouteCleared ==
  cr.fn = "createRoute" /\ cr.stage = "done" /\ Len(cr.locations) >= 2 =>
    map.route \in {<<>>, <<cr.n>>}

\* The two ends of createRoute that clear the route line.
C30_ClearedOnDirectionsFailure ==
  /\ cr.fn = "createRoute"
  /\ cr.stage = "done"
  /\ map.message \in {"routeNotAvailable", "routeNotAvailableOcean"}
  => map.route = <<>>

====
